---- MODULE Spec2Model ----
(***************************************************************************)
(* Model of the execution client of tau-core: Execute with its retry loop  *)
(* (doWithRetry, isRetryableError, calculateBackoff) and ExecuteStream     *)
(* with the provider decode worker and the client adapter goroutine.       *)
(***************************************************************************)
EXTENDS Integers, Sequences, FiniteSets, TLC

\* ------------------------------------------------------------------ bounds
MaxRetriesBound == 2
MaxLines == 4
MaxAttemptIndex == 12

\* ------------------------------------------------------- program constants
StatusOK == 200
MaxShift == 10

VARIABLES
    \* ---- Execute / doWithRetry
    cfg,          \* config.RetryConfig of the client
    pcE,          \* position of the Execute call
    attempt,      \* loop variable of doWithRetry
    lastErr,      \* lastErr of doWithRetry (error chain, <<>> = nil)
    delay,        \* delay computed by calculateBackoff for the current wait
    events,       \* history: "A" per attempt performed, "W" per backoff wait elapsed
    lastEnv,      \* history: what the environment answered to the last attempt
    allRetryHTTP, \* history: every attempt so far failed with 429/502/503/504
    retErr,       \* error returned by Execute (error chain, <<>> = nil)
    retOK,        \* Execute returned a result and a nil error
    retResult,    \* result Execute returned: 0 = nil, n = the response decoded by attempt n
    execCtxDone,  \* the ctx passed to Execute is cancelled
    \* ---- client
    healthy,      \* client.healthy
    \* ---- history of the calls a request makes
    netCalls,     \* history: number of httpClient.Do calls
    marshalCalls, \* history: number of req.Marshal calls
    healthWrites, \* history: number of setHealthy calls
    streamEnv,    \* history: what the environment answered to ExecuteStream
    \* ---- client.mutex around client.healthy
    muWriter,     \* the goroutine holding mutex.Lock, or "none"
    muReaders,    \* the goroutines holding mutex.RLock
    pcH,          \* position of each goroutine in setHealthy / IsHealthy
    pendingH,     \* argument of the setHealthy call each writer is in
    gotH,         \* value each IsHealthy call has read
    completedH,   \* history: <<argument>> of the setHealthy call that returned last
    \* ---- ExecuteStream
    provider,     \* which provider strategy serves the stream
    proto,        \* protocol of the streaming request
    pcS,          \* position of the ExecuteStream call
    ctxDone,      \* the ctx passed to ExecuteStream is cancelled
    ctxAtClose,   \* history: ctxDone when the consumer queue was closed
    readLines,    \* history: complete lines the worker has read from the body
    tail,         \* history: how the body reading ended
    pcW,          \* position of the provider's decode worker
    wChunk,       \* chunk the worker holds for handoff
    stream,       \* provider channel: "open" / "closed"
    streamCloses, \* history: number of close(stream)
    pcA,          \* position of the client adapter goroutine
    aChunk,       \* chunk the adapter holds for handoff
    output,       \* consumer channel: "none" / "open" / "closed"
    outputCloses, \* history: number of close(output)
    bodyCloses,   \* history: number of resp.Body.Close() calls
    respObtained, \* history: httpClient.Do returned a response
    pcC,          \* position of the consumer
    received,     \* history: chunks the consumer received, in order
    lateSend,     \* history: a send was attempted on a closed channel
    \* ---- provider.PrepareRequest / PrepareStreamRequest
    pcP,          \* position of the prepare call
    hdrHeap,      \* the header maps that exist, by reference
    hdrOrig,      \* history: the entries of the caller's map before the call
    reqHeaders,   \* Request.Headers of the returned request: a reference, or "none"
    \* ---- BaseProvider.Marshal of a vision request
    pcV,          \* position of the marshal call
    vHeap,        \* the slices and maps of the VisionData that exist, by reference
    vOrig,        \* history: the caller's slices and maps before the call
    vBody,        \* body returned by Marshal (a JSON object; no keys = nil)
    vErr,         \* error returned by Marshal ("" = nil)
    \* ---- provider construction and Endpoint
    pcN,          \* position: "idle", "built" / "failed", "resolved" / "unresolved",
                  \* "headersSet"
    pConfig,      \* the config.ProviderConfig given to the constructor
    pBuilt,       \* the provider the constructor returned
    provErr,      \* error returned by the constructor ("" = nil)
    endpointURL,  \* URL returned by Endpoint (<<>> = none)
    authHeaders,  \* the headers SetHeaders has set on the HTTP request
    \* ---- a chat request marshaled, echoed by the backend and decoded
    pcR,          \* position: "idle", "marshaled", "answered", "parsed"
    chatData,     \* the ChatData of the request
    chatBody,     \* body returned by Marshal (a JSON object)
    echoIdx,      \* which element of the body's messages array the backend echoes
    chatResp,     \* the ChatResponse ParseChat returned
    chatContent   \* the string Content() returned

execVars == <<cfg, pcE, attempt, lastErr, delay, events, lastEnv, allRetryHTTP,
              retErr, retOK, retResult, execCtxDone>>
streamVars == <<provider, proto, pcS, ctxDone, ctxAtClose, readLines, tail, pcW, wChunk,
                stream, streamCloses, pcA, aChunk, output, outputCloses,
                bodyCloses, respObtained, pcC, received, lateSend>>
callVars == <<netCalls, marshalCalls, healthWrites, streamEnv>>
lockVars == <<muWriter, muReaders, pcH, pendingH, gotH, completedH>>
libVars == <<pcP, hdrHeap, hdrOrig, reqHeaders, pcV, vHeap, vOrig, vBody, vErr,
             pcN, pConfig, pBuilt, provErr, endpointURL, authHeaders,
             pcR, chatData, chatBody, echoIdx, chatResp, chatContent>>
headerVars == <<pcP, hdrHeap, hdrOrig, reqHeaders>>
visionVars == <<pcV, vHeap, vOrig, vBody, vErr>>
providerVars == <<pcN, pConfig, pBuilt, provErr, endpointURL, authHeaders>>
chatVars == <<pcR, chatData, chatBody, echoIdx, chatResp, chatContent>>
vars == <<execVars, healthy, callVars, lockVars, libVars, streamVars>>

\* a Go map with no entries
EmptyMap == [k \in {} |-> ""]

\* maps.Copy(dst, src)
MapsCopy(dst, src) ==
    [k \in DOMAIN dst \cup DOMAIN src |-> IF k \in DOMAIN src THEN src[k] ELSE dst[k]]

\* m[key] = value
MapSet(m, key, value) ==
    [k \in DOMAIN m \cup {key} |-> IF k = key THEN value ELSE m[k]]

\* no provider: the nil Provider a failed constructor returns
NoProvider == [kind |-> "none", baseURL |-> <<>>, deployment |-> "", authType |-> "",
               token |-> "", apiVersion |-> ""]

InitHeadersIdle ==
    /\ pcP = "idle"
    /\ hdrHeap = [r \in {"caller"} |-> EmptyMap]
    /\ hdrOrig = EmptyMap
    /\ reqHeaders = "none"

InitVisionIdle ==
    /\ pcV = "idle"
    /\ vHeap = EmptyMap
    /\ vOrig = EmptyMap
    /\ vBody = EmptyMap
    /\ vErr = ""

InitProviderIdle ==
    /\ pcN = "idle"
    /\ pConfig = [BaseURL |-> <<>>, Options |-> EmptyMap]
    /\ pBuilt = NoProvider
    /\ provErr = ""
    /\ endpointURL = <<>>
    /\ authHeaders = EmptyMap

\* a ChatResponse with no choices
NoChoices == [Choices |-> <<>>]

InitChatIdle ==
    /\ pcR = "idle"
    /\ chatData = [Messages |-> <<>>, Options |-> EmptyMap]
    /\ chatBody = EmptyMap
    /\ echoIdx = 0
    /\ chatResp = NoChoices
    /\ chatContent = <<>>

\* no provider or marshal function has been called
InitLibIdle == InitHeadersIdle /\ InitVisionIdle /\ InitProviderIdle /\ InitChatIdle

\* ------------------------------------- request payloads and encoding/json
\* A Go string is a sequence of bytes; three bytes stand for the kinds
\* encoding/json treats differently: a letter, '<' which it writes as the
\* escape \u003c, and a byte that is not valid UTF-8, which it replaces by
\* U+FFFD.
TextContents == {<<"a">>, <<"<", "a">>, <<"xFF">>}

\* Message.Content is of type any: a string, or another Go value
TextContent(s) == [t |-> "string", s |-> s, b |-> <<>>]
ArrayContent(blocks) == [t |-> "array", s |-> <<>>, b |-> blocks]
NonTextContents == {ArrayContent(<<>>), [t |-> "number", s |-> <<>>, b |-> <<>>]}
Contents == {TextContent(s) : s \in TextContents} \cup NonTextContents

\* protocol.Message
Message(role, content) == [Role |-> role, Content |-> content]
CallerMessages ==
    {Message("user", c) : c \in Contents} \cup {Message("assistant", TextContent(<<"a">>))}

SeqUpTo(S, n) == UNION {[1..k -> S] : k \in 0..n}

\* values of a map[string]any at the root of the body
JStr(x) == [t |-> "string", str |-> x, num |-> 0, msgs |-> <<>>]
JNum(n) == [t |-> "number", str |-> "", num |-> n, msgs |-> <<>>]
JMsgs(l) == [t |-> "messages", str |-> "", num |-> 0, msgs |-> l]

\* json.Marshal of a string: coerced to valid UTF-8, '<' escaped
JSONString(s) ==
    [i \in 1..Len(s) |-> CASE s[i] = "xFF" -> "uFFFD"
                           [] s[i] = "<"   -> "\\u003c"
                           [] OTHER        -> s[i]]

\* json.Unmarshal of a JSON string
JSONUnquote(s) ==
    [i \in 1..Len(s) |-> IF s[i] = "\\u003c" THEN "<" ELSE s[i]]

\* json.Marshal of a content block map and of a Message (json tags role, content)
JSONBlock(b) == [b EXCEPT !.text = JSONString(b.text)]
JSONMessage(m) ==
    [role |-> m.Role,
     content |-> [t |-> m.Content.t,
                  s |-> JSONString(m.Content.s),
                  b |-> [i \in 1..Len(m.Content.b) |-> JSONBlock(m.Content.b[i])]]]

\* json.Marshal(combined)
JSONMarshal(combined) ==
    [k \in DOMAIN combined |->
        IF combined[k].t = "messages"
        THEN JMsgs([i \in 1..Len(combined[k].msgs) |-> JSONMessage(combined[k].msgs[i])])
        ELSE combined[k]]

\* json.Unmarshal into a protocol.Message
JSONUnmarshalMessage(w) ==
    Message(w.role,
            [t |-> w.content.t,
             s |-> JSONUnquote(w.content.s),
             b |-> [i \in 1..Len(w.content.b) |->
                       [w.content.b[i] EXCEPT !.text = JSONUnquote(w.content.b[i].text)]]])

\* ------------------------------------------------ BaseProvider.marshalVision
TextBlock(s) == [type |-> "text", text |-> s, image_url |-> EmptyMap]
ImageBlock(imageURL) == [type |-> "image_url", text |-> <<>>, image_url |-> imageURL]

\* imageURL := map[string]any{"url": imgURL}, then maps.Copy(imageURL,
\* d.VisionOptions) unless d.VisionOptions is nil
ImageURLMap(imgURL, visionOptions) ==
    IF visionOptions.isNil
    THEN [k \in {"url"} |-> imgURL]
    ELSE MapsCopy([k \in {"url"} |-> imgURL], visionOptions.m)

\* the slice the transformed last message is written into:
\* transformedMessages := make([]protocol.Message, len(d.Messages))
TransformedRefInPlace == "Messages"
TransformedRef == "transformedMessages"

\* len(d.Images) == 0
NoImagesNever(images) == FALSE
NoImages(images) == Len(images) = 0

\* the references held by the caller's VisionData
CallerRefs == {"Messages", "Images", "VisionOptions", "Options"}

ModelName == "llava"

\* marshalVision(d) with the VisionData's slices and maps in heap h: the
\* error, the body and the heap after the call
marshalVision(h) ==
    LET messages == h["Messages"]
        images == h["Images"]
    IN
    IF Len(messages) = 0
    THEN [err |-> "messages cannot be empty for vision requests", body |-> EmptyMap, heap |-> h]
    ELSE IF NoImages(images)
    THEN [err |-> "images cannot be empty for vision requests", body |-> EmptyMap, heap |-> h]
    ELSE
    LET lastIdx == Len(messages)
        message == messages[lastIdx]
    IN
    IF message.Content.t # "string"
    THEN [err |-> "message content must be a string for vision transformation",
          body |-> EmptyMap, heap |-> h]
    ELSE
    LET content == <<TextBlock(message.Content.s)>> \o
                   [i \in 1..Len(images) |->
                       ImageBlock(ImageURLMap(images[i], h["VisionOptions"]))]
        copied == (TransformedRef :> messages) @@ h
        written == [copied EXCEPT ![TransformedRef] =
                       [@ EXCEPT ![lastIdx] = Message(message.Role, ArrayContent(content))]]
        combined == MapsCopy(("model" :> JStr(ModelName))
                                 @@ ("messages" :> JMsgs(written[TransformedRef])),
                             written["Options"])
    IN [err |-> "", body |-> JSONMarshal(combined), heap |-> written]

\* does the outcome of req.Marshal() the environment record names agree with
\* the request the client was given (any outcome when the payload is not modelled)
MarshalOutcome(p, h, env) ==
    IF DOMAIN h = {} \/ p # "vision"
    THEN TRUE
    ELSE (env.kind = "marshalFail") <=> (marshalVision(h).err # "")

\* ------------------------------------------------------------------ errors
\* An error is its cause chain, outermost layer first; <<>> is nil.
Layer(k, c) == [k |-> k, code |-> c]
Msg == Layer("msg", 0)
\* the wrappers doWithRetry puts around the error it returns
MsgMaxRetries == Layer("msg", 1)
MsgCancelled == Layer("msg", 2)
MsgCancelledBackoff == Layer("msg", 3)
Nil == <<>>

HTTPStatusError(code) == <<Layer("http", code)>>

Min(a, b) == IF a <= b THEN a ELSE b

RECURSIVE Pow2(_)
Pow2(n) == IF n = 0 THEN 1 ELSE 2 * Pow2(n - 1)

\* errors.Is / errors.As: is there a layer of kind k in the chain
HasLayer(err, k) == \E i \in 1..Len(err) : err[i].k = k
FirstLayer(err, k) == CHOOSE i \in 1..Len(err) :
                         err[i].k = k /\ \A j \in 1..(i - 1) : err[j].k # k

IsRetryableStatus500(code) == code \in {429, 500, 502, 503, 504}
IsRetryableStatus(code) == code \in {429, 502, 503, 504}

\* errors.Is(err, context.Canceled) || errors.Is(err, context.DeadlineExceeded)
IsCancellationOutermost(err) == err[1].k \in {"canceled", "deadline"}
IsCancellation(err) == HasLayer(err, "canceled") \/ HasLayer(err, "deadline")

RECURSIVE isRetryableError(_)
isRetryableError(err) ==
    IF err = Nil THEN FALSE
    ELSE IF IsCancellation(err) THEN FALSE
    ELSE IF HasLayer(err, "http")
         THEN IsRetryableStatus(err[FirstLayer(err, "http")].code)
    ELSE IF HasLayer(err, "netop") THEN TRUE
    ELSE IF HasLayer(err, "dns")
         THEN err[FirstLayer(err, "dns")].code = 1
    ELSE IF HasLayer(err, "url")
         THEN isRetryableError(SubSeq(err, FirstLayer(err, "url") + 1, Len(err)))
    ELSE FALSE

\* calculateBackoff: the set of delays it can return; {} when rand.Int63n
\* panics on a non-positive argument.
JitterRangeHalf(d) == d \div 2
JitterRange(d) == d \div 4

calculateBackoff(att, c) ==
    LET maxAttempt == Min(att, MaxShift)
        d == c.InitialBackoff * Pow2(maxAttempt)
        jitterRange == JitterRange(d)
    IN  IF c.Jitter
        THEN IF jitterRange * 2 <= 0 THEN {}
             ELSE { Min(d + (r - jitterRange), c.MaxBackoff) : r \in 0..(jitterRange * 2 - 1) }
        ELSE { Min(d, c.MaxBackoff) }

\* number of occurrences of x in seq
Count(seq, x) == Cardinality({i \in 1..Len(seq) : seq[i] = x})

\* history of a call after n+1 attempts separated by n waits: "A" ("W" "A")^n
RECURSIVE Alternation(_)
Alternation(n) == IF n = 0 THEN <<"A">> ELSE Alternation(n - 1) \o <<"W", "A">>

\* ------------------------------------------------- one attempt: c.execute
\* What the collaborators answer to one attempt.
Causes == {"netop", "canceled", "deadline", "netopCanceled", "netopDeadline",
           "dnsTemp", "dnsPerm", "dnsTempBare", "dnsPermBare", "other"}
Statuses == {200, 201, 204, 400, 404, 429, 500, 502, 503, 504}
Envs == [kind : {"marshalFail", "newRequestFail"}, cause : {"none"}, status : {0}, decodeOK : {TRUE}]
        \cup [kind : {"transport"}, cause : Causes, status : {0}, decodeOK : {TRUE}]
        \cup [kind : {"response"}, cause : {"none"}, status : Statuses \ {200}, decodeOK : {TRUE}]
        \cup [kind : {"response"}, cause : {"none"}, status : {200}, decodeOK : BOOLEAN]
\* the attempt ended in provider.PrepareRequest, before the environment was asked
PrepareFailed == [kind |-> "prepareFail", cause |-> "none", status |-> 0, decodeOK |-> TRUE]
NoEnv == [kind |-> "none", cause |-> "none", status |-> 0, decodeOK |-> TRUE]

\* the error httpClient.Do returns: a *url.Error around the cause
TransportError(cause) ==
    <<Layer("url", 0)>> \o
    CASE cause = "netop"    -> <<Layer("netop", 0)>>
      [] cause = "canceled" -> <<Layer("canceled", 0)>>
      [] cause = "deadline" -> <<Layer("deadline", 0)>>
      [] cause = "netopCanceled" -> <<Layer("netop", 0), Layer("canceled", 0)>>
      [] cause = "netopDeadline" -> <<Layer("netop", 0), Layer("deadline", 0)>>
      [] cause = "dnsTemp"  -> <<Layer("netop", 0), Layer("dns", 1)>>
      [] cause = "dnsPerm"  -> <<Layer("netop", 0), Layer("dns", 0)>>
      [] cause = "dnsTempBare" -> <<Layer("dns", 1)>>
      [] cause = "dnsPermBare" -> <<Layer("dns", 0)>>
      [] OTHER              -> <<Layer("other", 0)>>

Protocols == {"chat", "vision", "tools", "embeddings"}
\* a protocol tag outside the four constants of the protocol package
AllProtocols == Protocols \cup {"audio"}
Providers == {"ollama", "azure"}

\* OllamaProvider.Endpoint / AzureProvider.Endpoint: is the protocol in the
\* endpoints map
EndpointExistsAlways(prov, p) == TRUE
EndpointExists(prov, p) == p \in {"chat", "vision", "tools", "embeddings"}

\* resp.StatusCode != http.StatusOK
StatusRejectedNon2xx(status) == ~(status \in 200..299)
StatusRejected(status) == status # StatusOK

\* the health write execute makes when provider.ProcessResponse fails
HealthOnDecodeErrorKeep == "keep"
HealthOnDecodeError == "down"

\* execute: error returned, the health write made ("keep" = none), and the
\* number of req.Marshal and httpClient.Do calls
execute(prov, p, env) ==
    IF env.kind = "marshalFail"
    THEN [err |-> <<Msg, Layer("other", 0)>>, health |-> "keep", marshal |-> 1, net |-> 0]
    ELSE IF ~EndpointExists(prov, p)
    THEN [err |-> <<Msg, Layer("other", 0)>>, health |-> "keep", marshal |-> 1, net |-> 0]
    ELSE IF env.kind = "newRequestFail"
    THEN [err |-> <<Msg, Layer("other", 0)>>, health |-> "keep", marshal |-> 1, net |-> 0]
    ELSE IF env.kind = "transport"
    THEN [err |-> TransportError(env.cause), health |-> "down", marshal |-> 1, net |-> 1]
    ELSE IF StatusRejected(env.status)
    THEN [err |-> HTTPStatusError(env.status), health |-> "down", marshal |-> 1, net |-> 1]
    ELSE IF ~env.decodeOK
    THEN [err |-> <<Msg, Layer("other", 0)>>, health |-> HealthOnDecodeError,
          marshal |-> 1, net |-> 1]
    ELSE [err |-> Nil, health |-> "up", marshal |-> 1, net |-> 1]

setHealthy(h, write) ==
    CASE write = "up" -> TRUE [] write = "down" -> FALSE [] OTHER -> h

\* ------------------------------------------------------------- doWithRetry
\* Durations are in nanoseconds, the unit of time.Duration.
RetryConfigs == [MaxRetries : (-1)..MaxRetriesBound,
                 BackoffMultiplier : {2},
                 InitialBackoff : {0, 1, 4},
                 MaxBackoff : {0, 5, 40},
                 Jitter : BOOLEAN]

InitExec ==
    /\ cfg \in RetryConfigs
    /\ pcE = "idle"
    /\ attempt = 0
    /\ lastErr = Nil
    /\ delay = 0
    /\ events = <<>>
    /\ lastEnv = NoEnv
    /\ allRetryHTTP = TRUE
    /\ retErr = Nil
    /\ retOK = FALSE
    /\ retResult = 0
    /\ execCtxDone = FALSE

\* ------------------------------------------- client.mutex and client.healthy
\* goroutines that call setHealthy (an Execute call, the adapter goroutine of
\* an ExecuteStream call) and goroutines that call IsHealthy
Writers == {"execute", "adapter"}
Readers == {"reader1", "reader2"}

\* sync.RWMutex: Lock waits for the writer and the readers to leave, RLock
\* waits for the writer to leave
LockAdmits(writer, readers) == writer = "none" /\ readers = {}
RLockAdmitsAlways(writer) == TRUE
RLockAdmits(writer) == writer = "none"

InitLock ==
    /\ muWriter = "none"
    /\ muReaders = {}
    /\ pcH = [g \in Writers \cup Readers |-> "idle"]
    /\ pendingH = [g \in Writers |-> TRUE]
    /\ gotH = [g \in Readers |-> TRUE]
    /\ completedH = <<>>

InitCalls ==
    /\ netCalls = 0
    /\ marshalCalls = 0
    /\ healthWrites = 0
    /\ streamEnv = NoEnv

InitStreamIdle ==
    /\ provider \in Providers
    /\ proto \in AllProtocols
    /\ pcS = "idle"
    /\ ctxDone = FALSE
    /\ ctxAtClose = FALSE
    /\ readLines = <<>>
    /\ tail = "open"
    /\ pcW = "none"
    /\ wChunk = 0
    /\ stream = "none"
    /\ streamCloses = 0
    /\ pcA = "none"
    /\ aChunk = 0
    /\ output = "none"
    /\ outputCloses = 0
    /\ bodyCloses = 0
    /\ respObtained = FALSE
    /\ pcC = "none"
    /\ received = <<>>
    /\ lateSend = FALSE

\* client.Execute: enter doWithRetry
Execute ==
    /\ pcE = "idle"
    /\ pcE' = "loop"
    /\ UNCHANGED <<cfg, attempt, lastErr, delay, events, lastEnv, allRetryHTTP,
                   retErr, retOK, retResult, execCtxDone, healthy, callVars, lockVars, libVars, streamVars>>

\* fmt.Errorf("max retries (%d) exceeded: %w", cfg.MaxRetries, lastErr)
WrapExhaustedOpaque(err) == <<MsgMaxRetries>>
WrapExhausted(err) == <<MsgMaxRetries>> \o err

\* if lastErr == nil { return result, nil }
AttemptSucceededNever(err) == FALSE
AttemptSucceeded(err) == err = Nil

\* loop condition failed: return the last error wrapped "max retries exceeded"
RetryExhausted ==
    /\ pcE = "loop"
    /\ ~(attempt <= cfg.MaxRetries)
    /\ pcE' = "done"
    /\ retErr' = WrapExhausted(lastErr)
    /\ UNCHANGED <<cfg, attempt, lastErr, delay, events, lastEnv, allRetryHTTP,
                   retOK, retResult, execCtxDone, healthy, callVars, lockVars, libVars, streamVars>>

\* ctx.Err() != nil at the top of an iteration
RetryCancelledBeforeAttempt ==
    /\ pcE = "loop"
    /\ attempt <= cfg.MaxRetries
    /\ execCtxDone
    /\ pcE' = "done"
    /\ retErr' = <<MsgCancelled, Layer("canceled", 0)>>
    /\ UNCHANGED <<cfg, attempt, lastErr, delay, events, lastEnv, allRetryHTTP,
                   retOK, retResult, execCtxDone, healthy, callVars, lockVars, libVars, streamVars>>

\* operation(ctx) is called: the attempt starts
AttemptStart ==
    /\ pcE = "loop"
    /\ attempt <= cfg.MaxRetries
    /\ ~execCtxDone
    /\ pcE' = "inflight"
    /\ events' = Append(events, "A")
    /\ UNCHANGED <<cfg, attempt, lastErr, delay, lastEnv, allRetryHTTP,
                   retErr, retOK, retResult, execCtxDone, healthy, callVars, lockVars, libVars, streamVars>>

\* operation(ctx) returns, and doWithRetry classifies its error
AttemptEnd ==
    /\ pcE = "inflight"
    /\ \E env \in Envs :
         LET r == execute(provider, proto, env) IN
         /\ MarshalOutcome(proto, vHeap, env)
         /\ lastEnv' = IF env.kind # "marshalFail" /\ ~EndpointExists(provider, proto)
                       THEN PrepareFailed ELSE env
         /\ lastErr' = r.err
         /\ healthy' = setHealthy(healthy, r.health)
         /\ healthWrites' = healthWrites + (IF r.health = "keep" THEN 0 ELSE 1)
         /\ marshalCalls' = marshalCalls + r.marshal
         /\ netCalls' = netCalls + r.net
         /\ UNCHANGED streamEnv
         /\ allRetryHTTP' = (allRetryHTTP /\ env.kind = "response"
                               /\ env.status \in {429, 502, 503, 504})
         /\ IF AttemptSucceeded(r.err)
            THEN /\ pcE' = "done" /\ retOK' = TRUE /\ retErr' = Nil
                 /\ retResult' = Count(events, "A")
                 /\ UNCHANGED <<attempt, delay>>
            ELSE IF ~isRetryableError(r.err)
            THEN /\ pcE' = "done" /\ retErr' = r.err
                 /\ UNCHANGED <<attempt, delay, retOK, retResult>>
            ELSE IF attempt < cfg.MaxRetries
            THEN /\ pcE' = "calc"
                 /\ UNCHANGED <<attempt, delay, retErr, retOK, retResult>>
            ELSE /\ pcE' = "loop" /\ attempt' = attempt + 1
                 /\ UNCHANGED <<delay, retErr, retOK, retResult>>
    /\ UNCHANGED <<cfg, events, execCtxDone, lockVars, libVars, streamVars>>

\* delay := calculateBackoff(attempt, cfg); a panic of rand.Int63n ends the call
ComputeBackoff ==
    /\ pcE = "calc"
    /\ IF calculateBackoff(attempt, cfg) = {}
       THEN /\ pcE' = "panic" /\ UNCHANGED delay
       ELSE /\ pcE' = "select"
            /\ delay' \in calculateBackoff(attempt, cfg)
    /\ UNCHANGED <<cfg, attempt, lastErr, events, lastEnv, allRetryHTTP,
                   retErr, retOK, retResult, execCtxDone, healthy, callVars, lockVars, libVars, streamVars>>

\* case <-ctx.Done() of the backoff select
BackoffNoDoneCase(done) == FALSE
BackoffDoneCase(done) == done

\* the select finds neither case ready and blocks
BackoffWait ==
    /\ pcE = "select"
    /\ ~BackoffDoneCase(execCtxDone)
    /\ pcE' = "backoff"
    /\ UNCHANGED <<cfg, attempt, lastErr, delay, events, lastEnv, allRetryHTTP,
                   retErr, retOK, retResult, execCtxDone, healthy, callVars, lockVars, libVars, streamVars>>

\* case <-time.After(delay): the timer has fired when the select is entered,
\* or fires while the select is blocked
BackoffElapsed ==
    /\ pcE \in {"select", "backoff"}
    /\ events' = Append(events, "W")
    /\ attempt' = attempt + 1
    /\ pcE' = "loop"
    /\ UNCHANGED <<cfg, lastErr, delay, lastEnv, allRetryHTTP,
                   retErr, retOK, retResult, execCtxDone, healthy, callVars, lockVars, libVars, streamVars>>

\* case <-ctx.Done(): ctx is already cancelled when the select is entered
BackoffCancelled ==
    /\ pcE = "select"
    /\ BackoffDoneCase(execCtxDone)
    /\ pcE' = "done"
    /\ retErr' = <<MsgCancelledBackoff, Layer("canceled", 0)>>
    /\ UNCHANGED <<cfg, attempt, lastErr, delay, events, lastEnv, allRetryHTTP,
                   retOK, retResult, execCtxDone, healthy, callVars, lockVars, libVars, streamVars>>

\* the caller cancels the token of the Execute call; a select blocked in the
\* backoff is released through its ctx.Done() case and Execute returns
CancelExecute ==
    /\ pcE \in {"idle", "loop", "inflight", "calc", "select", "backoff"}
    /\ ~execCtxDone
    /\ execCtxDone' = TRUE
    /\ IF pcE = "backoff" /\ BackoffDoneCase(TRUE)
       THEN /\ pcE' = "done"
            /\ retErr' = <<MsgCancelledBackoff, Layer("canceled", 0)>>
       ELSE UNCHANGED <<pcE, retErr>>
    /\ UNCHANGED <<cfg, attempt, lastErr, delay, events, lastEnv, allRetryHTTP,
                   retOK, retResult, healthy, callVars, lockVars, libVars, streamVars>>

NextExec ==
    \/ Execute
    \/ RetryExhausted
    \/ RetryCancelledBeforeAttempt
    \/ AttemptStart
    \/ AttemptEnd
    \/ ComputeBackoff
    \/ BackoffWait
    \/ BackoffElapsed
    \/ BackoffCancelled
    \/ CancelExecute

InitRetry == InitExec /\ InitStreamIdle /\ healthy = TRUE /\ InitCalls /\ InitLock /\ InitLibIdle

SpecExec == InitRetry /\ [][NextExec]_vars

\* ---------------------------------------------------------- the stream
\* A body line as strings.TrimSpace leaves it: pre says whether it starts
\* with "data: ", kind is what follows ("" / "[DONE]" / a JSON object /
\* malformed JSON), id identifies the JSON object's content.
LinesAt(i) == { [pre |-> FALSE, kind |-> "blank", id |-> 0],
                [pre |-> TRUE,  kind |-> "done",  id |-> 0],
                [pre |-> TRUE,  kind |-> "json",  id |-> i],
                [pre |-> FALSE, kind |-> "json",  id |-> i],
                [pre |-> TRUE,  kind |-> "bad",   id |-> 0] }

SupportsStreamingAll(p) == TRUE
SupportsStreaming(p) == p \in {"chat", "vision", "tools"}

\* chunk values: 0 = no chunk (decode error), -1 = &StreamingChunk{Error: err},
\* n > 0 = the chunk decoded from the JSON object n
ErrChunk == -1

ParseStreamChunkShared(p, data) ==
    IF p \in {"chat", "vision", "tools"} /\ data.kind = "json" THEN 1 ELSE 0
ParseStreamChunk(p, data) ==
    IF p \in {"chat", "vision", "tools"} /\ data.kind = "json" THEN data.id ELSE 0

\* what the worker does when ParseStreamChunk fails
OnDecodeErrorReturn == "return"
OnDecodeError == "continue"

\* what the worker does when ReadString fails with an error other than io.EOF
OnReadErrorReturn == "return"
OnReadError == "emit"

\* line == "data: [DONE]"
OllamaMarkerMissed(l) == FALSE
OllamaIsMarker(l) == l.pre /\ l.kind = "done"

\* OllamaProvider.ProcessStreamResponse, one line after TrimSpace
OllamaLine(p, l) ==
    IF ~l.pre /\ l.kind = "blank" THEN [do |-> "continue", chunk |-> 0]
    ELSE IF OllamaIsMarker(l) THEN [do |-> "return", chunk |-> 0]
    ELSE LET data == [kind |-> l.kind, id |-> l.id]
             chunk == ParseStreamChunk(p, data)
         IN  IF chunk = 0 THEN [do |-> OnDecodeError, chunk |-> 0]
             ELSE [do |-> "send", chunk |-> chunk]

\* AzureProvider.ProcessStreamResponse, one line after TrimSpace
AzureLine(p, l) ==
    IF ~l.pre /\ l.kind = "blank" THEN [do |-> "continue", chunk |-> 0]
    ELSE IF ~l.pre THEN [do |-> "continue", chunk |-> 0]
    ELSE LET data == [kind |-> l.kind, id |-> l.id] IN
         IF data.kind = "done" THEN [do |-> "return", chunk |-> 0]
         ELSE LET chunk == ParseStreamChunk(p, data)
              IN  IF chunk = 0 THEN [do |-> OnDecodeError, chunk |-> 0]
                  ELSE [do |-> "send", chunk |-> chunk]

ProcessLine(prov, p, l) ==
    IF prov = "ollama" THEN OllamaLine(p, l) ELSE AzureLine(p, l)

\* case <-ctx.Done() of the worker's and of the adapter's select
WorkerNoDoneCase(done) == FALSE
WorkerDoneCase(done) == done
AdapterNoDoneCase(done) == FALSE
AdapterDoneCase(done) == done

\* where the adapter goroutine goes on return: its deferred calls
AdapterReturnNoDefer == "done"
AdapterReturn == "exit"

\* executeStream calls resp.Body.Close() on a non-OK status
BadStatusLeavesBodyOpen == FALSE
BadStatusClosesBody == TRUE

\* provider.ProcessStreamResponse up to the start of the worker
ProcessStreamResponse(status) ==
    IF status # StatusOK THEN [err |-> TRUE, closes |-> 1]
    ELSE [err |-> FALSE, closes |-> 0]

StreamEnvs == [kind : {"marshalFail", "newRequestFail"}, cause : {"none"}, status : {0}, decodeOK : {TRUE}]
              \cup [kind : {"transport"}, cause : {"netop", "canceled"}, status : {0}, decodeOK : {TRUE}]
              \cup [kind : {"response"}, cause : {"none"}, status : Statuses, decodeOK : {TRUE}]

\* executeStream is called directly, outside doWithRetry: the number of times
\* it repeats a failed HTTP attempt
StreamRetriesAsExecute(c) == c.MaxRetries
StreamRetries(c) == 0

\* executeStream up to the start of the goroutines: whether the stream is
\* started, the health write, the number of req.Marshal and httpClient.Do
\* calls, whether a response was obtained and how often its body was closed
executeStream(c, prov, p, env) ==
    IF env.kind = "marshalFail"
    THEN [started |-> FALSE, health |-> "keep", marshal |-> 1, net |-> 0,
          resp |-> FALSE, closes |-> 0]
    ELSE IF ~EndpointExists(prov, p) \/ env.kind = "newRequestFail"
    THEN [started |-> FALSE, health |-> "keep", marshal |-> 1, net |-> 0,
          resp |-> FALSE, closes |-> 0]
    ELSE IF env.kind = "transport"
    THEN [started |-> FALSE, health |-> "down", marshal |-> 1,
          net |-> 1 + (IF isRetryableError(TransportError(env.cause))
                       THEN StreamRetries(c) ELSE 0),
          resp |-> FALSE, closes |-> 0]
    ELSE IF env.status # StatusOK
    THEN [started |-> FALSE, health |-> "down", marshal |-> 1,
          net |-> 1 + (IF isRetryableError(HTTPStatusError(env.status))
                       THEN StreamRetries(c) ELSE 0),
          resp |-> TRUE, closes |-> IF BadStatusClosesBody THEN 1 ELSE 0]
    ELSE LET setup == ProcessStreamResponse(env.status) IN
         IF setup.err
         THEN [started |-> FALSE, health |-> "down", marshal |-> 1, net |-> 1,
               resp |-> TRUE, closes |-> setup.closes + 1]
         ELSE [started |-> TRUE, health |-> "keep", marshal |-> 1, net |-> 1,
               resp |-> TRUE, closes |-> 0]

\* the retry configuration of the client that serves the stream; ExecuteStream
\* never reads it
StreamRetryConfig == [MaxRetries |-> MaxRetriesBound, BackoffMultiplier |-> 2,
                      InitialBackoff |-> 4,
                      MaxBackoff |-> 40, Jitter |-> TRUE]

InitStream ==
    /\ cfg = StreamRetryConfig
    /\ pcE = "idle"
    /\ attempt = 0
    /\ lastErr = Nil
    /\ delay = 0
    /\ events = <<>>
    /\ lastEnv = NoEnv
    /\ allRetryHTTP = TRUE
    /\ retErr = Nil
    /\ retOK = FALSE
    /\ retResult = 0
    /\ execCtxDone = FALSE
    /\ healthy = TRUE
    /\ InitCalls
    /\ InitLock
    /\ InitLibIdle
    /\ provider \in Providers
    /\ proto \in AllProtocols
    /\ pcS = "idle"
    /\ ctxDone = FALSE
    /\ ctxAtClose = FALSE
    /\ readLines = <<>>
    /\ tail = "open"
    /\ pcW = "none"
    /\ wChunk = 0
    /\ stream = "none"
    /\ streamCloses = 0
    /\ pcA = "none"
    /\ aChunk = 0
    /\ output = "none"
    /\ outputCloses = 0
    /\ bodyCloses = 0
    /\ respObtained = FALSE
    /\ pcC = "none"
    /\ received = <<>>
    /\ lateSend = FALSE

\* client.ExecuteStream up to its return: protocol check, then executeStream
\* (marshal, prepare, the HTTP attempt, status check, start of the worker and
\* of the adapter goroutine)
ExecuteStream ==
    /\ pcS = "idle"
    /\ IF ~SupportsStreaming(proto)
       THEN /\ pcS' = "failed"
            /\ UNCHANGED <<healthy, callVars, respObtained, bodyCloses,
                           pcW, pcA, pcC, stream, output>>
       ELSE \E env \in StreamEnvs :
              LET r == executeStream(cfg, provider, proto, env) IN
              /\ MarshalOutcome(proto, vHeap, env)
              /\ streamEnv' = env
              /\ marshalCalls' = marshalCalls + r.marshal
              /\ netCalls' = netCalls + r.net
              /\ healthy' = setHealthy(healthy, r.health)
              /\ healthWrites' = healthWrites + (IF r.health = "keep" THEN 0 ELSE 1)
              /\ respObtained' = r.resp
              /\ bodyCloses' = bodyCloses + r.closes
              /\ IF r.started
                 THEN /\ pcS' = "streaming"
                      /\ pcW' = "read" /\ stream' = "open"
                      /\ pcA' = "recv" /\ output' = "open"
                      /\ pcC' = "idle"
                 ELSE /\ pcS' = "failed"
                      /\ UNCHANGED <<pcW, pcA, pcC, stream, output>>
    /\ UNCHANGED <<execVars, lockVars, libVars, provider, proto, ctxDone, ctxAtClose, readLines, tail,
                   wChunk, streamCloses, aChunk, outputCloses, received, lateSend>>

\* Both channels are unbuffered. A send completes only together with a
\* receive: a goroutine entering a select takes, among the cases that are
\* ready at that moment, any one (Go picks at random); when none is ready it
\* blocks, and is then released by the first event that comes, the partner's
\* receive or the closing of ctx.Done().
\* ---- the provider's decode worker (goroutine of ProcessStreamResponse)
WorkerAfterSend(chunk) == IF chunk = ErrChunk THEN "exit" ELSE "read"

\* where the worker goes with a decoded chunk: into the select that hands it
\* to the adapter over the unbuffered channel
WorkerHandoffSkipped == "read"
WorkerHandoff == "sel"

\* reader.ReadString('\n') returns a complete line
WorkerReadLine ==
    /\ pcW = "read"
    /\ Len(readLines) < MaxLines
    /\ \E l \in LinesAt(Len(readLines) + 1) :
         LET r == ProcessLine(provider, proto, l) IN
         /\ readLines' = Append(readLines, l)
         /\ CASE r.do = "continue" -> pcW' = "read" /\ wChunk' = 0
              [] r.do = "return"   -> pcW' = "exit" /\ wChunk' = 0
              [] OTHER             -> pcW' = WorkerHandoff /\ wChunk' = r.chunk
    /\ UNCHANGED <<execVars, callVars, lockVars, libVars, healthy, provider, proto, pcS, ctxDone, ctxAtClose, tail,
                   stream, streamCloses, pcA, aChunk, output, outputCloses,
                   bodyCloses, respObtained, pcC, received, lateSend>>

\* reader.ReadString('\n') returns io.EOF, with or without an unterminated rest
WorkerReadEOF ==
    /\ pcW = "read"
    /\ tail' \in {"eof", "eofPartial"}
    /\ pcW' = "exit"
    /\ UNCHANGED <<execVars, callVars, lockVars, libVars, healthy, provider, proto, pcS, ctxDone, ctxAtClose, readLines,
                   wChunk, stream, streamCloses, pcA, aChunk, output, outputCloses,
                   bodyCloses, respObtained, pcC, received, lateSend>>

\* reader.ReadString('\n') returns another error
WorkerReadError ==
    /\ pcW = "read"
    /\ tail' = "err"
    /\ IF OnReadError = "emit"
       THEN pcW' = "sel" /\ wChunk' = ErrChunk
       ELSE pcW' = "exit" /\ wChunk' = 0
    /\ UNCHANGED <<execVars, callVars, lockVars, libVars, healthy, provider, proto, pcS, ctxDone, ctxAtClose, readLines,
                   stream, streamCloses, pcA, aChunk, output, outputCloses,
                   bodyCloses, respObtained, pcC, received, lateSend>>

\* select: case output <- chunk, the adapter is waiting in its receive
WorkerSend ==
    /\ pcW = "sel"
    /\ pcA = "recvBlocked"
    /\ aChunk' = wChunk
    /\ pcA' = "sel"
    /\ pcW' = WorkerAfterSend(wChunk)
    /\ wChunk' = 0
    /\ lateSend' = (lateSend \/ stream = "closed")
    /\ UNCHANGED <<execVars, callVars, lockVars, libVars, healthy, provider, proto, pcS, ctxDone, ctxAtClose, readLines,
                   tail, stream, streamCloses, output, outputCloses,
                   bodyCloses, respObtained, pcC, received>>

\* select: case <-ctx.Done()
WorkerCancelled ==
    /\ pcW = "sel"
    /\ WorkerDoneCase(ctxDone)
    /\ pcW' = "exit"
    /\ wChunk' = 0
    /\ UNCHANGED <<execVars, callVars, lockVars, libVars, healthy, provider, proto, pcS, ctxDone, ctxAtClose, readLines,
                   tail, stream, streamCloses, pcA, aChunk, output, outputCloses,
                   bodyCloses, respObtained, pcC, received, lateSend>>

\* select: no case is ready, the worker blocks
WorkerBlock ==
    /\ pcW = "sel"
    /\ pcA # "recvBlocked"
    /\ ~WorkerDoneCase(ctxDone)
    /\ pcW' = "blocked"
    /\ lateSend' = (lateSend \/ stream = "closed")
    /\ UNCHANGED <<execVars, callVars, lockVars, libVars, healthy, provider, proto, pcS, ctxDone, ctxAtClose, readLines,
                   tail, wChunk, stream, streamCloses, pcA, aChunk, output, outputCloses,
                   bodyCloses, respObtained, pcC, received>>

\* defer resp.Body.Close()
WorkerCloseBody ==
    /\ pcW = "exit"
    /\ bodyCloses' = bodyCloses + 1
    /\ pcW' = "closing"
    /\ UNCHANGED <<execVars, callVars, lockVars, libVars, healthy, provider, proto, pcS, ctxDone, ctxAtClose, readLines,
                   tail, wChunk, stream, streamCloses, pcA, aChunk, output, outputCloses,
                   respObtained, pcC, received, lateSend>>

\* defer close(output) of the worker: the adapter's range loop ends
WorkerCloseStream ==
    /\ pcW = "closing"
    /\ stream' = "closed"
    /\ streamCloses' = streamCloses + 1
    /\ pcW' = "done"
    /\ pcA' = IF pcA = "recvBlocked" THEN "fin" ELSE pcA
    /\ UNCHANGED <<execVars, callVars, lockVars, libVars, healthy, provider, proto, pcS, ctxDone, ctxAtClose, readLines,
                   tail, wChunk, aChunk, output, outputCloses,
                   bodyCloses, respObtained, pcC, received, lateSend>>

\* ---- the client adapter (goroutine of executeStream)
\* for data := range stream: the worker is blocked in its send
AdapterTake ==
    /\ pcA = "recv"
    /\ pcW = "blocked"
    /\ aChunk' = wChunk
    /\ pcA' = "sel"
    /\ pcW' = WorkerAfterSend(wChunk)
    /\ wChunk' = 0
    /\ UNCHANGED <<execVars, callVars, lockVars, libVars, healthy, provider, proto, pcS, ctxDone, ctxAtClose, readLines,
                   tail, stream, streamCloses, output, outputCloses,
                   bodyCloses, respObtained, pcC, received, lateSend>>

\* for data := range stream: the channel is closed, the loop ends
AdapterLoopEnd ==
    /\ pcA = "recv"
    /\ pcW # "blocked"
    /\ stream = "closed"
    /\ pcA' = "fin"
    /\ UNCHANGED <<execVars, callVars, lockVars, libVars, healthy, provider, proto, pcS, ctxDone, ctxAtClose, readLines,
                   tail, pcW, wChunk, stream, streamCloses, aChunk, output, outputCloses,
                   bodyCloses, respObtained, pcC, received, lateSend>>

\* for data := range stream: nothing to receive, the adapter blocks
AdapterWait ==
    /\ pcA = "recv"
    /\ pcW # "blocked"
    /\ stream = "open"
    /\ pcA' = "recvBlocked"
    /\ UNCHANGED <<execVars, callVars, lockVars, libVars, healthy, provider, proto, pcS, ctxDone, ctxAtClose, readLines,
                   tail, pcW, wChunk, stream, streamCloses, aChunk, output, outputCloses,
                   bodyCloses, respObtained, pcC, received, lateSend>>

\* select: case output <- chunk, the consumer is waiting in its receive
AdapterSend ==
    /\ pcA = "sel"
    /\ pcC = "recvBlocked"
    /\ received' = Append(received, aChunk)
    /\ pcC' = "idle"
    /\ pcA' = "recv"
    /\ aChunk' = 0
    /\ lateSend' = (lateSend \/ output = "closed")
    /\ UNCHANGED <<execVars, callVars, lockVars, libVars, healthy, provider, proto, pcS, ctxDone, ctxAtClose, readLines,
                   tail, pcW, wChunk, stream, streamCloses, output, outputCloses,
                   bodyCloses, respObtained>>

\* select: case <-ctx.Done(): return
AdapterCancelled ==
    /\ pcA = "sel"
    /\ AdapterDoneCase(ctxDone)
    /\ pcA' = AdapterReturn
    /\ aChunk' = 0
    /\ UNCHANGED <<execVars, callVars, lockVars, libVars, healthy, provider, proto, pcS, ctxDone, ctxAtClose, readLines,
                   tail, pcW, wChunk, stream, streamCloses, output, outputCloses,
                   bodyCloses, respObtained, pcC, received, lateSend>>

\* select: no case is ready, the adapter blocks
AdapterBlock ==
    /\ pcA = "sel"
    /\ pcC # "recvBlocked"
    /\ ~AdapterDoneCase(ctxDone)
    /\ pcA' = "blocked"
    /\ lateSend' = (lateSend \/ output = "closed")
    /\ UNCHANGED <<execVars, callVars, lockVars, libVars, healthy, provider, proto, pcS, ctxDone, ctxAtClose, readLines,
                   tail, pcW, wChunk, stream, streamCloses, aChunk, output, outputCloses,
                   bodyCloses, respObtained, pcC, received>>

\* after the loop: c.setHealthy(true)
AdapterFinish ==
    /\ pcA = "fin"
    /\ healthy' = setHealthy(healthy, "up")
    /\ healthWrites' = healthWrites + 1
    /\ pcA' = "exit"
    /\ UNCHANGED <<netCalls, marshalCalls, streamEnv>>
    /\ UNCHANGED <<execVars, lockVars, libVars, provider, proto, pcS, ctxDone, ctxAtClose, readLines,
                   tail, pcW, wChunk, stream, streamCloses, aChunk, output, outputCloses,
                   bodyCloses, respObtained, pcC, received, lateSend>>

\* defer resp.Body.Close()
AdapterCloseBody ==
    /\ pcA = "exit"
    /\ bodyCloses' = bodyCloses + 1
    /\ pcA' = "closing"
    /\ UNCHANGED <<execVars, callVars, lockVars, libVars, healthy, provider, proto, pcS, ctxDone, ctxAtClose, readLines,
                   tail, pcW, wChunk, stream, streamCloses, aChunk, output, outputCloses,
                   respObtained, pcC, received, lateSend>>

\* defer close(output) of the adapter: a waiting consumer sees the close
AdapterCloseOutput ==
    /\ pcA = "closing"
    /\ output' = "closed"
    /\ outputCloses' = outputCloses + 1
    /\ ctxAtClose' = ctxDone
    /\ pcA' = "done"
    /\ pcC' = IF pcC = "recvBlocked" THEN "closed" ELSE pcC
    /\ UNCHANGED <<execVars, callVars, lockVars, libVars, healthy, provider, proto, pcS, ctxDone, readLines,
                   tail, pcW, wChunk, stream, streamCloses, aChunk,
                   bodyCloses, respObtained, received, lateSend>>

\* ---- the consumer of the returned channel
\* <-chunks: the adapter is blocked in its send
ConsumerTake ==
    /\ pcC = "idle"
    /\ pcA = "blocked"
    /\ received' = Append(received, aChunk)
    /\ pcA' = "recv"
    /\ aChunk' = 0
    /\ UNCHANGED <<execVars, callVars, lockVars, libVars, healthy, provider, proto, pcS, ctxDone, ctxAtClose, readLines,
                   tail, pcW, wChunk, stream, streamCloses, output, outputCloses,
                   bodyCloses, respObtained, pcC, lateSend>>

\* <-chunks: the channel is closed
ConsumerSeesClose ==
    /\ pcC = "idle"
    /\ pcA # "blocked"
    /\ output = "closed"
    /\ pcC' = "closed"
    /\ UNCHANGED <<execVars, callVars, lockVars, libVars, healthy, provider, proto, pcS, ctxDone, ctxAtClose, readLines,
                   tail, pcW, wChunk, stream, streamCloses, pcA, aChunk, output, outputCloses,
                   bodyCloses, respObtained, received, lateSend>>

\* <-chunks: nothing to receive, the consumer blocks
ConsumerWait ==
    /\ pcC = "idle"
    /\ pcA # "blocked"
    /\ output = "open"
    /\ pcC' = "recvBlocked"
    /\ UNCHANGED <<execVars, callVars, lockVars, libVars, healthy, provider, proto, pcS, ctxDone, ctxAtClose, readLines,
                   tail, pcW, wChunk, stream, streamCloses, pcA, aChunk, output, outputCloses,
                   bodyCloses, respObtained, received, lateSend>>

\* the caller cancels the token of the stream: ctx.Done() is closed, and a
\* goroutine blocked in a select on it leaves by that case
CancelStream ==
    /\ pcS = "streaming"
    /\ ~ctxDone
    /\ ctxDone' = TRUE
    /\ pcW' = IF pcW = "blocked" /\ WorkerDoneCase(TRUE) THEN "exit" ELSE pcW
    /\ wChunk' = IF pcW = "blocked" /\ WorkerDoneCase(TRUE) THEN 0 ELSE wChunk
    /\ pcA' = IF pcA = "blocked" /\ AdapterDoneCase(TRUE) THEN AdapterReturn ELSE pcA
    /\ aChunk' = IF pcA = "blocked" /\ AdapterDoneCase(TRUE) THEN 0 ELSE aChunk
    /\ UNCHANGED <<execVars, callVars, lockVars, libVars, healthy, provider, proto, pcS, ctxAtClose, readLines,
                   tail, stream, streamCloses, output, outputCloses,
                   bodyCloses, respObtained, pcC, received, lateSend>>

WorkerStep ==
    \/ WorkerReadLine
    \/ WorkerReadEOF
    \/ WorkerReadError
    \/ WorkerSend
    \/ WorkerCancelled
    \/ WorkerBlock
    \/ WorkerCloseBody
    \/ WorkerCloseStream

AdapterStep ==
    \/ AdapterTake
    \/ AdapterLoopEnd
    \/ AdapterWait
    \/ AdapterSend
    \/ AdapterCancelled
    \/ AdapterBlock
    \/ AdapterFinish
    \/ AdapterCloseBody
    \/ AdapterCloseOutput

ConsumerStep ==
    \/ ConsumerTake
    \/ ConsumerSeesClose
    \/ ConsumerWait

NextStream ==
    \/ ExecuteStream
    \/ WorkerStep
    \/ AdapterStep
    \/ ConsumerStep
    \/ CancelStream

SpecStream == InitStream /\ [][NextStream]_vars

\* a chat stream, under the Go scheduler: every goroutine that can take a
\* step eventually runs (the consumer is under no such obligation)
InitChatStream == InitStream /\ proto = "chat"

FairStream ==
    InitChatStream /\ [][NextStream]_vars /\ WF_vars(WorkerStep) /\ WF_vars(AdapterStep)

\* ---- the health flag under concurrent calls: setHealthy is what Execute
\* attempts and the ExecuteStream goroutines do to the flag, IsHealthy is
\* what readers do
\* setHealthy is called with some outcome
SetHealthyCall(w) ==
    /\ pcH[w] = "idle"
    /\ \E v \in BOOLEAN : pendingH' = [pendingH EXCEPT ![w] = v]
    /\ pcH' = [pcH EXCEPT ![w] = "lock"]
    /\ UNCHANGED <<execVars, libVars, healthy, callVars, muWriter, muReaders, gotH, completedH,
                   streamVars>>

\* c.mutex.Lock()
SetHealthyLock(w) ==
    /\ pcH[w] = "lock"
    /\ LockAdmits(muWriter, muReaders)
    /\ muWriter' = w
    /\ pcH' = [pcH EXCEPT ![w] = "write"]
    /\ UNCHANGED <<execVars, libVars, healthy, callVars, muReaders, pendingH, gotH, completedH,
                   streamVars>>

\* c.healthy = healthy; c.lastHealth = time.Now()
SetHealthyWrite(w) ==
    /\ pcH[w] = "write"
    /\ healthy' = pendingH[w]
    /\ pcH' = [pcH EXCEPT ![w] = "unlock"]
    /\ UNCHANGED <<execVars, libVars, callVars, muWriter, muReaders, pendingH, gotH, completedH,
                   streamVars>>

\* the deferred c.mutex.Unlock(): setHealthy returns
SetHealthyUnlock(w) ==
    /\ pcH[w] = "unlock"
    /\ muWriter' = "none"
    /\ completedH' = <<pendingH[w]>>
    /\ pcH' = [pcH EXCEPT ![w] = "idle"]
    /\ UNCHANGED <<execVars, libVars, healthy, callVars, muReaders, pendingH, gotH, streamVars>>

\* IsHealthy: c.mutex.RLock()
IsHealthyRLock(r) ==
    /\ pcH[r] = "idle"
    /\ RLockAdmits(muWriter)
    /\ muReaders' = muReaders \cup {r}
    /\ pcH' = [pcH EXCEPT ![r] = "read"]
    /\ UNCHANGED <<execVars, libVars, healthy, callVars, muWriter, pendingH, gotH, completedH,
                   streamVars>>

\* the operand of return c.healthy is evaluated
IsHealthyRead(r) ==
    /\ pcH[r] = "read"
    /\ gotH' = [gotH EXCEPT ![r] = healthy]
    /\ pcH' = [pcH EXCEPT ![r] = "runlock"]
    /\ UNCHANGED <<execVars, libVars, healthy, callVars, muWriter, muReaders, pendingH, completedH,
                   streamVars>>

\* the deferred c.mutex.RUnlock(): IsHealthy returns gotH[r]
IsHealthyRUnlock(r) ==
    /\ pcH[r] = "runlock"
    /\ muReaders' = muReaders \ {r}
    /\ pcH' = [pcH EXCEPT ![r] = "idle"]
    /\ UNCHANGED <<execVars, libVars, healthy, callVars, muWriter, pendingH, gotH, completedH,
                   streamVars>>

NextHealth ==
    \/ \E w \in Writers : SetHealthyCall(w)
    \/ \E w \in Writers : SetHealthyLock(w)
    \/ \E w \in Writers : SetHealthyWrite(w)
    \/ \E w \in Writers : SetHealthyUnlock(w)
    \/ \E r \in Readers : IsHealthyRLock(r)
    \/ \E r \in Readers : IsHealthyRead(r)
    \/ \E r \in Readers : IsHealthyRUnlock(r)

InitHealth == InitStream /\ provider = "ollama" /\ proto = "chat"

SpecHealth == InitHealth /\ [][NextHealth]_vars

\* ---- calculateBackoff on its own: the state of doWithRetry after attempt
\* index k failed with a retryable error and a further attempt is allowed
BackoffConfigs == [MaxRetries : {MaxAttemptIndex + 1},
                   BackoffMultiplier : {1, 2, 3},
                   InitialBackoff : {0, 1, 3, 4, 6, 50},
                   MaxBackoff : {0, 5, 100, 60000},
                   Jitter : BOOLEAN]

InitBackoff ==
    /\ cfg \in BackoffConfigs
    /\ pcE = "calc"
    /\ attempt \in 0..MaxAttemptIndex
    /\ lastErr = HTTPStatusError(503)
    /\ delay = 0
    /\ events = Alternation(attempt)
    /\ lastEnv = [kind |-> "response", cause |-> "none", status |-> 503, decodeOK |-> TRUE]
    /\ allRetryHTTP = TRUE
    /\ retErr = Nil
    /\ retOK = FALSE
    /\ retResult = 0
    /\ execCtxDone = FALSE
    /\ healthy = FALSE
    /\ netCalls = attempt + 1
    /\ marshalCalls = attempt + 1
    /\ healthWrites = attempt + 1
    /\ streamEnv = NoEnv
    /\ InitLock
    /\ InitLibIdle
    /\ InitStreamIdle
    /\ provider = "ollama"
    /\ proto = "chat"

SpecBackoff == InitBackoff /\ [][ComputeBackoff]_vars

\* ---- one request given to both entry points of the same client: the
\* Execute call with its retry loop, and the ExecuteStream call up to its return
NextRequest ==
    \/ NextExec
    \/ ExecuteStream

SpecRequest == InitRetry /\ [][NextRequest]_vars

\* ------------------------------------------------------ claims on Execute
ExecuteEnded == pcE \in {"done", "panic"}

\* C1: with MaxRetries = N >= 0 and a token that is never cancelled, when
\* every attempt fails with a status in {429, 502, 503, 504}, Execute ends
\* by returning an error after exactly N+1 attempts separated by exactly N
\* backoff waits, none after the last attempt.
C1_ExactlyNPlusOneAttempts ==
    (/\ cfg.MaxRetries >= 0
     /\ ~execCtxDone
     /\ allRetryHTTP
     /\ ExecuteEnded)
    => (/\ pcE = "done"
        /\ retErr # Nil
        /\ ~retOK
        /\ events = Alternation(cfg.MaxRetries))

NonRetryableStatus(code) == code # StatusOK /\ code \notin {429, 502, 503, 504}

\* C2: an attempt answered with a non-success status outside {429, 502,
\* 503, 504} is the last one: Execute returns that attempt's HTTP status
\* error at once, with no backoff wait after it, whatever the retry budget;
\* when it is the first attempt, it is the only one.
C2_NonRetryableStatusSingleAttempt ==
    (/\ lastEnv.kind = "response"
     /\ NonRetryableStatus(lastEnv.status)
     /\ pcE # "inflight")
    => (/\ pcE = "done"
        /\ retErr = HTTPStatusError(lastEnv.status)
        /\ ~retOK
        /\ events[Len(events)] = "A"
        /\ Count(events, "A") = attempt + 1
        /\ Count(events, "W") = attempt
        /\ (attempt = 0 => events = <<"A">>))

C2_Witness ==
    /\ pcE = "done"
    /\ lastEnv.kind = "response"
    /\ lastEnv.status = 404
    /\ cfg.MaxRetries = 2
    /\ events = <<"A">>
    /\ retErr = HTTPStatusError(404)

\* errors.Is(err, context.Canceled) or errors.Is(err, context.DeadlineExceeded)
\* holds for the chain
ChainHasCancellation(err) ==
    \E i \in 1..Len(err) : err[i].k \in {"canceled", "deadline"}

IsExhaustedError(err) == err # Nil /\ err[1] = MsgMaxRetries

\* C11: when the token is cancelled while Execute waits in a backoff, the
\* wait ends with the cancellation, no further attempt starts, and Execute
\* returns an error that wraps the cancellation cause and is not the
\* attempts-exhausted error; a returned call does nothing more.
C11_CancelDuringBackoff ==
    [][/\ (pcE = "backoff" /\ ~execCtxDone /\ execCtxDone')
          => (/\ pcE' = "done"
              /\ events' = events
              /\ ~retOK'
              /\ ChainHasCancellation(retErr')
              /\ ~IsExhaustedError(retErr'))
       /\ (pcE = "done") => (pcE' = "done" /\ events' = events /\ retErr' = retErr)]_vars

C11_Witness ==
    /\ pcE = "done"
    /\ execCtxDone
    /\ retErr = <<MsgCancelledBackoff, Layer("canceled", 0)>>
    /\ events = <<"A", "W", "A">>
    /\ cfg.MaxRetries = 2

\* C12: cancellation is checked before every attempt: no attempt starts
\* while the token is cancelled, and a call whose token is cancelled before
\* its first attempt returns with zero attempts and an error that wraps the
\* cancellation cause.
C12_NoAttemptOnCancelledToken ==
    [][/\ (Len(events') > Len(events) /\ events'[Len(events')] = "A") => ~execCtxDone
       /\ (execCtxDone /\ events = <<>> /\ pcE # "done" /\ pcE' = "done")
          => (/\ events' = <<>>
              /\ ~retOK'
              /\ ChainHasCancellation(retErr'))]_vars

\* C13: an attempt whose error chain contains context.Canceled or
\* context.DeadlineExceeded is the last one, even when the chain also holds
\* a retryable cause: Execute returns that error after the attempt, with no
\* wait, and the cancellation is still recognisable in the returned error.
C13_CancellationNeverRetried ==
    (pcE # "inflight" /\ ChainHasCancellation(lastErr))
    => (/\ pcE = "done"
        /\ ~retOK
        /\ retErr = lastErr
        /\ ChainHasCancellation(retErr)
        /\ events[Len(events)] = "A"
        /\ Count(events, "W") = attempt)

C13_Witness ==
    /\ pcE = "done"
    /\ lastEnv.kind = "transport"
    /\ lastEnv.cause = "netopCanceled"
    /\ HasLayer(lastErr, "netop")
    /\ retErr = TransportError("netopCanceled")
    /\ events = <<"A", "W", "A">>
    /\ cfg.MaxRetries = 2

\* an attempt has ended and none is under way
AttemptReturned == lastEnv # NoEnv /\ pcE # "inflight"

WritersInside == {w \in Writers : pcH[w] \in {"write", "unlock"}}
ReadersInside == {r \in Readers : pcH[r] \in {"read", "runlock"}}

\* value of the health write that completed last; New sets healthy: true
LastCompletedWrite == IF completedH = <<>> THEN TRUE ELSE completedH[1]

\* C18: a new client reports healthy; under every interleaving of health
\* writers (Execute and ExecuteStream calls) and IsHealthy readers, at most
\* one write is under way, no read overlaps a write, and the value IsHealthy
\* reads is that of the health write that completed last.
C18_HealthFlagLastWriteWins ==
    /\ Cardinality(WritersInside) <= 1
    /\ WritersInside # {} => ReadersInside = {}
    /\ WritersInside = {} => healthy = LastCompletedWrite
    /\ \A r \in Readers : pcH[r] = "runlock" => gotH[r] = LastCompletedWrite

C18_Witness ==
    /\ pcH["reader1"] = "runlock"
    /\ pcH["reader2"] = "read"
    /\ gotH["reader1"] = FALSE
    /\ completedH = <<FALSE>>
    /\ pcH["execute"] = "lock"
    /\ pendingH["execute"] = TRUE
    /\ pcH["adapter"] = "lock"

\* C19: an attempt answered with a 2xx status hands the response to the
\* provider's decoder and produces no HTTP status error; an attempt answered
\* with any other status returns the HTTP status error of that status.
C19_StatusClassification ==
    (AttemptReturned /\ lastEnv.kind = "response")
    => IF lastEnv.status \in 200..299
       THEN /\ ~HasLayer(lastErr, "http")
            /\ lastErr = Nil <=> lastEnv.decodeOK
       ELSE lastErr = HTTPStatusError(lastEnv.status)

\* C20 as stated: the wait after attempt index k is min(initialBackoff *
\* 2^min(k,10), maxBackoff) with jitter off; with jitter on it is at least
\* 0.75 * initialBackoff * 2^min(k,10) and at most maxBackoff.
C20_BackoffBounds ==
    pcE = "select"
    => LET d == cfg.InitialBackoff * Pow2(IF attempt < 10 THEN attempt ELSE 10)
       IN  /\ delay <= cfg.MaxBackoff
           /\ ~cfg.Jitter => delay = (IF d <= cfg.MaxBackoff THEN d ELSE cfg.MaxBackoff)
           /\ cfg.Jitter => 4 * delay >= 3 * d

\* C20: the wait after attempt index k never exceeds maxBackoff; with jitter
\* off it is min(initialBackoff * 2^min(k,10), maxBackoff); with jitter on it
\* is at least min(0.75 * initialBackoff * 2^min(k,10), maxBackoff).
C20_BackoffBoundsCapped ==
    pcE = "select"
    => LET d == cfg.InitialBackoff * Pow2(IF attempt < 10 THEN attempt ELSE 10)
       IN  /\ delay <= cfg.MaxBackoff
           /\ ~cfg.Jitter => delay = (IF d <= cfg.MaxBackoff THEN d ELSE cfg.MaxBackoff)
           /\ cfg.Jitter => (4 * delay >= 3 * d \/ delay = cfg.MaxBackoff)

C20_Witness ==
    /\ pcE = "select"
    /\ cfg.Jitter
    /\ attempt = 11
    /\ cfg.InitialBackoff = 50
    /\ cfg.MaxBackoff = 60000
    /\ delay = 40000

\* ---------------------------------------------------- claims on the stream
Last(seq) == seq[Len(seq)]
IsPrefix(a, b) == Len(a) <= Len(b) /\ a = SubSeq(b, 1, Len(a))
IsDataChunk(c) == c > 0
DataOf(chunks) == SelectSeq(chunks, IsDataChunk)

ChunkLine(i) == [pre |-> TRUE, kind |-> "json", id |-> i]
MarkerLine == [pre |-> TRUE, kind |-> "done", id |-> 0]

\* the backend's termination marker, and the lines its decoder accepts
TerminationMarker(l) == l.pre /\ l.kind = "done"
WellFormedChunkLine(prov, l) == l.kind = "json" /\ (prov = "azure" => l.pre)

RECURSIVE BeforeMarker(_)
BeforeMarker(lines) ==
    IF lines = <<>> \/ TerminationMarker(Head(lines)) THEN <<>>
    ELSE <<Head(lines)>> \o BeforeMarker(Tail(lines))

RECURSIVE ChunksOf(_, _)
ChunksOf(prov, lines) ==
    IF lines = <<>> THEN <<>>
    ELSE (IF WellFormedChunkLine(prov, Head(lines)) THEN <<Head(lines).id>> ELSE <<>>)
         \o ChunksOf(prov, Tail(lines))

StreamEnded == pcW = "done" /\ pcA = "done"
ClosedUncancelled == output = "closed" /\ ~ctxAtClose

\* C3: when the body starts with the chunk lines c1, c2 and then the
\* termination marker, the worker reads nothing after the marker, the
\* consumer only ever receives c1 then c2, and a stream that closes without
\* cancellation has delivered exactly <<c1, c2>>.
C3_TwoChunksThenClose ==
    (/\ Len(readLines) >= 3
     /\ SubSeq(readLines, 1, 3) = <<ChunkLine(1), ChunkLine(2), MarkerLine>>)
    => (/\ Len(readLines) = 3
        /\ pcW \in {"exit", "closing", "done"}
        /\ IsPrefix(received, <<1, 2>>)
        /\ (ClosedUncancelled => received = <<1, 2>>))

C3_Witness ==
    /\ readLines = <<ChunkLine(1), ChunkLine(2), MarkerLine>>
    /\ received = <<1, 2>>
    /\ pcC = "closed"
    /\ ~ctxDone

\* C4: the chunks received by the consumer are always a prefix of the
\* well-formed chunk lines read from the body, in read order; until the
\* token is cancelled the same holds of the received chunks followed by the
\* chunk the adapter holds and the chunk the worker holds.
C4_DeliveredInReadOrder ==
    /\ IsPrefix(DataOf(received), ChunksOf(provider, readLines))
    /\ (~ctxDone => IsPrefix(DataOf(received \o <<aChunk, wChunk>>),
                             ChunksOf(provider, readLines)))

C4_Witness ==
    /\ received = <<1, 3, 4>>
    /\ readLines[2].kind = "blank"
    /\ ~ctxDone

HasMalformedLine == \E i \in 1..Len(readLines) : readLines[i].kind = "bad"

C6_ReadErrorChunkLast ==
    /\ (tail = "err" /\ ClosedUncancelled
          => received = ChunksOf(provider, readLines) \o <<ErrChunk>>)
    /\ \A i \in 1..Len(received) : received[i] = ErrChunk => i = Len(received)

C6_Witness ==
    /\ tail = "err"
    /\ readLines = <<ChunkLine(1), ChunkLine(2)>>
    /\ received = <<1, 2, ErrChunk>>
    /\ pcC = "closed"
    /\ ~ctxDone

\* C7: each of the two queues is closed at most once, is closed exactly
\* once when its goroutine has ended, on every exit path, and no send is
\* attempted on a closed queue.
C7_QueuesClosedOnce ==
    /\ outputCloses <= 1
    /\ streamCloses <= 1
    /\ (pcA = "done" => outputCloses = 1 /\ output = "closed")
    /\ (pcW = "done" => streamCloses = 1 /\ stream = "closed")
    /\ ~lateSend

C7_Witness ==
    /\ StreamEnded
    /\ ctxAtClose
    /\ outputCloses = 1
    /\ received = <<1>>

\* C8 as stated: the response body is closed exactly once on every exit path.
C8_BodyClosedExactlyOnce ==
    /\ bodyCloses <= 1
    /\ (respObtained /\ (pcS = "failed" \/ StreamEnded) => bodyCloses = 1)

\* C8 amended: the response body is closed on every exit path: exactly once
\* when the call fails on a non-success status, and twice, once by the
\* decode worker and once by the adapter, when a started stream has ended.
C8_BodyClosedOnEveryPath ==
    /\ bodyCloses <= 2
    /\ (respObtained /\ pcS = "failed" => bodyCloses = 1)
    /\ (pcW \in {"closing", "done"} \/ pcA \in {"closing", "done"} => bodyCloses >= 1)
    /\ (output = "closed" => bodyCloses >= 1)
    /\ (StreamEnded => bodyCloses = 2)

C8_Witness ==
    /\ StreamEnded
    /\ bodyCloses = 2
    /\ tail = "err"
    /\ ctxDone

\* C9: once the token is cancelled while a stream is active, the worker and
\* the adapter end, the consumer queue is closed and the body is closed,
\* whether or not the consumer ever receives again.
C9_CancelEndsStream ==
    (ctxDone /\ pcS = "streaming")
    ~> (StreamEnded /\ output = "closed" /\ bodyCloses >= 1)

C9_Witness ==
    /\ ctxDone
    /\ StreamEnded
    /\ output = "closed"
    /\ pcC = "idle"
    /\ received = <<>>
    /\ Len(readLines) = 2
    /\ ChunksOf(provider, readLines) = <<1, 2>>

\* C10: once the token is cancelled, the consumer receives no further chunk.
C10_NoDeliveryAfterCancel ==
    [][ctxDone => received' = received]_vars

\* ------------------------------------------- claims on ExecuteStream calls
NonSuccessStatus(status) == ~(status \in 200..299)

StreamNotStarted ==
    /\ pcS = "failed"
    /\ stream = "none"
    /\ output = "none"
    /\ pcW = "none"
    /\ pcA = "none"
    /\ pcC = "none"
    /\ received = <<>>

\* C14: ExecuteStream makes exactly one HTTP attempt; when that attempt ends
\* in a transport error or in a non-success status (429, 502, 503 and 504
\* included) the call returns an error, with no chunk queue and no worker,
\* and the attempt is not repeated.
C14_StreamSingleAttempt ==
    /\ netCalls <= 1
    /\ (pcS # "idle" /\ streamEnv.kind \in {"transport", "response"}) => netCalls = 1
    /\ (/\ pcS # "idle"
        /\ \/ streamEnv.kind = "transport"
           \/ streamEnv.kind = "response" /\ NonSuccessStatus(streamEnv.status))
       => StreamNotStarted

C14_Witness ==
    /\ pcS = "failed"
    /\ streamEnv.kind = "response"
    /\ streamEnv.status = 503
    /\ cfg.MaxRetries = 2
    /\ netCalls = 1

\* C15: ExecuteStream on a request whose protocol is not chat, vision or
\* tools (embeddings or any other tag) fails at once: the request is not
\* marshaled, no network call is made, no worker is started and the health
\* flag is not written.
C15_UnsupportedProtocolFailsFast ==
    (proto \notin {"chat", "vision", "tools"} /\ pcS # "idle")
    => (/\ StreamNotStarted
        /\ marshalCalls = 0
        /\ netCalls = 0
        /\ healthWrites = 0
        /\ healthy = TRUE)

C15_Witness ==
    /\ proto = "embeddings"
    /\ pcS = "failed"
    /\ marshalCalls = 0

\* the protocols for which Endpoint of both providers returns an error
RejectedByEndpoint(p) == p \notin {"chat", "vision", "tools", "embeddings"}

\* C16: for a request whose protocol the provider's endpoint resolution
\* rejects, neither Execute nor ExecuteStream makes a network call and both
\* return an error; Execute never makes a second attempt and never waits:
\* the attempt it makes is the only one and its error is returned as it is.
C16_RejectedProtocolNoNetworkCall ==
    RejectedByEndpoint(proto)
    => (/\ netCalls = 0
        /\ Count(events, "A") <= 1
        /\ Count(events, "W") = 0
        /\ pcE \in {"idle", "loop", "inflight", "done"}
        /\ pcE = "done" => (~retOK /\ retErr # Nil)
        /\ (pcE = "done" /\ events # <<>>)
           => (/\ events = <<"A">>
               /\ lastEnv.kind \in {"marshalFail", "prepareFail"}
               /\ retErr = lastErr
               /\ ~IsExhaustedError(retErr))
        /\ pcS # "idle" => StreamNotStarted)

C16_Witness ==
    /\ proto = "audio"
    /\ pcE = "done"
    /\ events = <<"A">>
    /\ lastEnv = PrepareFailed
    /\ cfg.MaxRetries = 2
    /\ pcS = "failed"
    /\ netCalls = 0

\* ------------------------------------------- claims on the retry loop's results
RECURSIVE Power(_, _)
Power(b, n) == IF n = 0 THEN 1 ELSE b * Power(b, n - 1)

\* C21: before jitter, the wait after attempt number `attempt` is
\* initial_backoff * backoff_multiplier^attempt capped at max_backoff, for
\* every configured backoff_multiplier (observed with jitter off).
C21_BackoffUsesMultiplier ==
    (pcE = "select" /\ ~cfg.Jitter)
    => LET d == cfg.InitialBackoff * Power(cfg.BackoffMultiplier, attempt)
       IN  delay = (IF d <= cfg.MaxBackoff THEN d ELSE cfg.MaxBackoff)

\* the attempt budget is used up and the last attempt failed with a retryable error
BudgetExhausted ==
    /\ pcE = "done"
    /\ cfg.MaxRetries >= 0
    /\ Count(events, "A") = cfg.MaxRetries + 1
    /\ isRetryableError(lastErr)

\* C22: when the attempt budget is exhausted on retryable failures, Execute
\* returns the error of the final attempt wrapped in the attempts-exhausted
\* marker, and the final attempt's HTTP status error is reachable by
\* unwrapping what is returned.
C22_ExhaustedWrapsLastError ==
    /\ (pcE = "done" /\ IsExhaustedError(retErr) /\ events # <<>>)
       => (/\ ~retOK
           /\ events = Alternation(cfg.MaxRetries)
           /\ lastEnv.kind \in {"transport", "response"}
           /\ SubSeq(retErr, 2, Len(retErr)) = execute(provider, proto, lastEnv).err
           /\ lastEnv.kind = "response"
              => (/\ HasLayer(retErr, "http")
                  /\ retErr[FirstLayer(retErr, "http")] = Layer("http", lastEnv.status)))
    /\ BudgetExhausted => IsExhaustedError(retErr)

C22_Witness ==
    /\ pcE = "done"
    /\ cfg.MaxRetries = 2
    /\ events = Alternation(2)
    /\ lastEnv.kind = "response"
    /\ lastEnv.status = 503
    /\ ~allRetryHTTP
    /\ retErr = <<MsgMaxRetries, Layer("http", 503)>>

\* C23: when attempt k+1 succeeds after k retryable failures, Execute returns
\* that attempt's result with no error after exactly k+1 attempts separated
\* by k waits, does nothing afterwards, and never returns the result of a
\* failed attempt.
C23_SuccessAfterRetries ==
    /\ (lastEnv # NoEnv /\ lastErr = Nil /\ pcE # "inflight")
       => (/\ pcE = "done"
           /\ retOK
           /\ retErr = Nil
           /\ attempt <= cfg.MaxRetries
           /\ events = Alternation(attempt)
           /\ retResult = attempt + 1)
    /\ retResult # 0 => (retOK /\ lastErr = Nil /\ retResult = Count(events, "A"))
    /\ retOK => retResult # 0

C23_Witness ==
    /\ pcE = "done"
    /\ retOK
    /\ cfg.MaxRetries = 2
    /\ attempt = 2
    /\ events = <<"A", "W", "A", "W", "A">>
    /\ retResult = 3
    /\ healthy

\* ------------------------------------------------ a client that is idle
\* every variable of the client, the retry loop and the stream at its value
\* after construction, for any provider and protocol
InitIdle ==
    /\ cfg = StreamRetryConfig
    /\ pcE = "idle"
    /\ attempt = 0
    /\ lastErr = Nil
    /\ delay = 0
    /\ events = <<>>
    /\ lastEnv = NoEnv
    /\ allRetryHTTP = TRUE
    /\ retErr = Nil
    /\ retOK = FALSE
    /\ retResult = 0
    /\ execCtxDone = FALSE
    /\ healthy = TRUE
    /\ InitCalls
    /\ InitLock
    /\ InitStreamIdle

\* ---------------------- provider.PrepareRequest / PrepareStreamRequest
\* header maps are Go maps: functions from the keys present to their values
HeaderKeys == {"Content-Type", "Accept", "Cache-Control"}
HeaderValues == {"application/json", "text/event-stream", "no-store"}
HeaderMaps == UNION {[D -> HeaderValues] : D \in SUBSET HeaderKeys}

\* the map PrepareStreamRequest writes the streaming headers into:
\* streamHeaders := make(map[string]string) is a new map
StreamHeadersRefAliased == "caller"
StreamHeadersRef == "clone"

\* PrepareRequest(ctx, proto, body, headers): Request.Headers is the
\* caller's map itself
PrepareRequest ==
    /\ pcP = "idle"
    /\ IF ~EndpointExists(provider, proto)
       THEN /\ pcP' = "failed"
            /\ UNCHANGED <<hdrHeap, reqHeaders>>
       ELSE /\ pcP' = "prepared"
            /\ reqHeaders' = "caller"
            /\ UNCHANGED hdrHeap
    /\ UNCHANGED <<hdrOrig, visionVars, providerVars,
                   chatVars, execVars, healthy, callVars, lockVars, streamVars>>

\* PrepareStreamRequest(ctx, proto, body, headers)
PrepareStreamRequest ==
    /\ pcP = "idle"
    /\ IF ~EndpointExists(provider, proto)
       THEN /\ pcP' = "failed"
            /\ UNCHANGED <<hdrHeap, reqHeaders>>
       ELSE LET ref == StreamHeadersRef
                made == IF ref \in DOMAIN hdrHeap THEN hdrHeap[ref] ELSE EmptyMap
                copied == MapsCopy(made, hdrHeap["caller"])
                streamHeaders == MapSet(MapSet(copied, "Accept", "text/event-stream"),
                                        "Cache-Control", "no-cache")
            IN /\ pcP' = "streamPrepared"
               /\ hdrHeap' = (ref :> streamHeaders) @@ hdrHeap
               /\ reqHeaders' = ref
    /\ UNCHANGED <<hdrOrig, visionVars, providerVars,
                   chatVars, execVars, healthy, callVars, lockVars, streamVars>>

NextPrepare ==
    \/ PrepareRequest
    \/ PrepareStreamRequest

InitPrepare ==
    /\ InitIdle
    /\ InitChatIdle
    /\ InitVisionIdle
    /\ InitProviderIdle
    /\ pcP = "idle"
    /\ \E m \in HeaderMaps : hdrHeap = [r \in {"caller"} |-> m] /\ hdrOrig = m
    /\ reqHeaders = "none"

SpecPrepare == InitPrepare /\ [][NextPrepare]_vars

StreamHeaderKeys == {"Accept", "Cache-Control"}

\* C24: PrepareRequest and PrepareStreamRequest never modify the caller's
\* header map: after either call it has exactly its original entries, and the
\* map returned by PrepareStreamRequest contains all of those entries plus
\* Accept: text/event-stream and Cache-Control: no-cache.
C24_CallerHeadersKept ==
    pcP # "idle" =>
        /\ hdrHeap["caller"] = hdrOrig
        /\ pcP = "streamPrepared" =>
              LET ret == hdrHeap[reqHeaders]
              IN /\ \A k \in DOMAIN hdrOrig : k \in DOMAIN ret /\ ret[k] = hdrOrig[k]
                 /\ "Accept" \in DOMAIN ret /\ ret["Accept"] = "text/event-stream"
                 /\ "Cache-Control" \in DOMAIN ret /\ ret["Cache-Control"] = "no-cache"

\* C24 amended: the caller's map keeps exactly its original entries after
\* either call; the map PrepareRequest returns has the caller's entries; the
\* map PrepareStreamRequest returns has the keys of the caller's map plus
\* Accept and Cache-Control, with Accept: text/event-stream and
\* Cache-Control: no-cache replacing any value the caller gave those two
\* keys, and the caller's value at every other key.
C24_CallerHeadersKeptStreamOverlaid ==
    pcP # "idle" =>
        /\ hdrHeap["caller"] = hdrOrig
        /\ pcP = "failed" => reqHeaders = "none"
        /\ pcP = "prepared" => hdrHeap[reqHeaders] = hdrOrig
        /\ pcP = "streamPrepared" =>
              LET ret == hdrHeap[reqHeaders]
              IN /\ DOMAIN ret = DOMAIN hdrOrig \cup StreamHeaderKeys
                 /\ \A k \in DOMAIN hdrOrig \ StreamHeaderKeys : ret[k] = hdrOrig[k]
                 /\ ret["Accept"] = "text/event-stream"
                 /\ ret["Cache-Control"] = "no-cache"

C24_Witness ==
    /\ pcP = "streamPrepared"
    /\ DOMAIN hdrOrig = HeaderKeys
    /\ hdrOrig["Accept"] = "application/json"
    /\ hdrHeap["caller"]["Accept"] = "application/json"
    /\ hdrHeap[reqHeaders]["Accept"] = "text/event-stream"
    /\ hdrHeap[reqHeaders]["Content-Type"] = "application/json"

\* ------------------------------------------ Marshal of a vision request
MaxMessages == 2
MaxImages == 2

ImageURLs == {"img1", "img2"}
NilMap == [isNil |-> TRUE, m |-> EmptyMap]
GoMap(m) == [isNil |-> FALSE, m |-> m]

\* vision options: nil, the detail level, and a map that has the key url
VisionOptionMaps ==
    {NilMap, GoMap([k \in {"detail"} |-> "high"]), GoMap([k \in {"url"} |-> "other"])}

\* model options: none, a sampling limit, and maps that have the keys the
\* marshal functions set themselves
OptionMaps ==
    {EmptyMap,
     [k \in {"max_tokens"} |-> JNum(1024)],
     [k \in {"messages"} |-> JMsgs(<<Message("user", TextContent(<<"a">>))>>)],
     [k \in {"model"} |-> JStr("other")]}

\* the slices and maps of a VisionData, by reference
VisionHeaps ==
    {[r \in CallerRefs |->
         CASE r = "Messages" -> ms
           [] r = "Images" -> is
           [] r = "VisionOptions" -> vo
           [] OTHER -> op] :
        ms \in SeqUpTo(CallerMessages, MaxMessages),
        is \in SeqUpTo(ImageURLs, MaxImages),
        vo \in VisionOptionMaps,
        op \in OptionMaps}

\* provider.Marshal(protocol.Vision, &VisionData{...})
MarshalVision ==
    /\ pcV = "idle"
    /\ LET r == marshalVision(vHeap) IN
         /\ vHeap' = r.heap
         /\ vBody' = r.body
         /\ vErr' = r.err
    /\ pcV' = "done"
    /\ UNCHANGED <<vOrig, headerVars, providerVars,
                   chatVars, execVars, healthy, callVars, lockVars, streamVars>>

InitVision ==
    /\ InitIdle
    /\ InitChatIdle
    /\ provider = "ollama"
    /\ proto = "vision"
    /\ InitHeadersIdle
    /\ InitProviderIdle
    /\ pcV = "idle"
    /\ vHeap \in VisionHeaps
    /\ vOrig = vHeap
    /\ vBody = EmptyMap
    /\ vErr = ""

SpecVision == InitVision /\ [][MarshalVision]_vars

\* the messages array of the body, as a JSON reader decodes it
BodyMessages == [i \in 1..Len(vBody["messages"].msgs) |->
                    JSONUnmarshalMessage(vBody["messages"].msgs[i])]

\* the request has messages m1..mn with mn plain text, and k >= 1 images
VisionWellFormed ==
    /\ Len(vOrig["Messages"]) >= 1
    /\ vOrig["Messages"][Len(vOrig["Messages"])].Content.t = "string"
    /\ Len(vOrig["Images"]) >= 1

\* the last element of the messages array keeps mn's role and holds one text
\* block with mn's text, then one image_url block per image with its URL
LastMessageEmbedsImages(out, ms, imgs) ==
    LET n == Len(ms)
        blocks == out[n].Content.b
    IN /\ out[n].Role = ms[n].Role
       /\ out[n].Content.t = "array"
       /\ Len(blocks) = Len(imgs) + 1
       /\ blocks[1].type = "text"
       /\ blocks[1].text = ms[n].Content.s
       /\ \A j \in 1..Len(imgs) :
             /\ blocks[j + 1].type = "image_url"
             /\ "url" \in DOMAIN blocks[j + 1].image_url
             /\ blocks[j + 1].image_url["url"] = imgs[j]

\* C25: vision marshaling of messages m1..mn (mn plain text) with images
\* i1..ik, k >= 1, yields a messages array of length n whose first n-1
\* elements equal m1..m(n-1) and whose last element keeps mn's role and has as
\* content one text block with mn's text followed by one image_url block per
\* image, in image order, each carrying its own image's URL.
C25_VisionMessagesShape ==
    (pcV = "done" /\ VisionWellFormed) =>
        /\ vErr = ""
        /\ "messages" \in DOMAIN vBody
        /\ vBody["messages"].t = "messages"
        /\ Len(BodyMessages) = Len(vOrig["Messages"])
        /\ \A i \in 1..(Len(vOrig["Messages"]) - 1) : BodyMessages[i] = vOrig["Messages"][i]
        /\ LastMessageEmbedsImages(BodyMessages, vOrig["Messages"], vOrig["Images"])

\* C27: vision marshaling never mutates the caller's data: after a marshal
\* call, whether it succeeded or failed, the caller's message list with every
\* message in it, the image list and both option maps are as they were before.
C27_VisionDataNotMutated ==
    pcV = "done" => \A r \in CallerRefs : vHeap[r] = vOrig[r]

C27_Witness ==
    /\ pcV = "done"
    /\ vErr = ""
    /\ Len(vOrig["Messages"]) = 2
    /\ Len(vOrig["Images"]) = 2
    /\ ~vOrig["VisionOptions"].isNil
    /\ "max_tokens" \in DOMAIN vOrig["Options"]
    /\ "max_tokens" \in DOMAIN vBody
    /\ vBody["messages"].msgs[2].content.t = "array"
    /\ vHeap["Messages"][2].Content.t = "string"
    /\ vHeap["Messages"] = vOrig["Messages"]

\* ---- a vision request given to the client: Marshal called on it, Execute
\* with its retry loop, and ExecuteStream up to its return
VisionHeap(ms, is) ==
    [r \in CallerRefs |->
        CASE r = "Messages" -> ms
          [] r = "Images" -> is
          [] r = "VisionOptions" -> NilMap
          [] OTHER -> EmptyMap]

VisionRequestSamples ==
    {VisionHeap(<<Message("user", TextContent(<<"a">>))>>, <<"img1">>),
     VisionHeap(<<Message("user", TextContent(<<"a">>))>>, <<>>),
     VisionHeap(<<Message("user", ArrayContent(<<>>))>>, <<"img1">>),
     VisionHeap(<<Message("user", TextContent(<<"a">>)),
                  Message("user", [t |-> "number", s |-> <<>>, b |-> <<>>])>>, <<"img1", "img2">>),
     VisionHeap(<<Message("user", ArrayContent(<<>>))>>, <<>>),
     VisionHeap(<<>>, <<>>)}

InitVisionRequest ==
    /\ InitIdle
    /\ InitChatIdle
    /\ proto = "vision"
    /\ InitHeadersIdle
    /\ InitProviderIdle
    /\ pcV = "idle"
    /\ vHeap \in VisionRequestSamples
    /\ vOrig = vHeap
    /\ vBody = EmptyMap
    /\ vErr = ""

NextVisionRequest ==
    \/ MarshalVision
    \/ NextExec
    \/ ExecuteStream

SpecVisionRequest == InitVisionRequest /\ [][NextVisionRequest]_vars

\* the image list is empty or the last message's content is not plain text
VisionMalformed ==
    \/ Len(vOrig["Images"]) = 0
    \/ /\ Len(vOrig["Messages"]) >= 1
       /\ vOrig["Messages"][Len(vOrig["Messages"])].Content.t # "string"

\* C26: vision marshaling fails with an error and produces no body whenever
\* the image list is empty or the last message's content is not plain text,
\* and such a request is never sent on the network by Execute or
\* ExecuteStream.
C26_MalformedVisionNeverSent ==
    VisionMalformed =>
        /\ pcV = "done" => (vErr # "" /\ vBody = EmptyMap)
        /\ netCalls = 0
        /\ ~respObtained
        /\ pcE = "done" => (retErr # Nil /\ ~retOK /\ Count(events, "A") <= 1)
        /\ pcS # "streaming"

C26_Witness ==
    /\ VisionMalformed
    /\ Len(vOrig["Images"]) = 2
    /\ pcV = "done"
    /\ vErr = "message content must be a string for vision transformation"
    /\ pcE = "done"
    /\ pcS = "failed"
    /\ marshalCalls = 2
    /\ netCalls = 0

\* -------------------------------- provider construction and Endpoint
\* A URL is a sequence of pieces: the scheme with the authority is one piece,
\* the characters after it are one piece each, and a path or query fragment a
\* provider appends is one piece.

\* strings.HasSuffix(s, suffix)
HasSuffixNever(s, suffix) == FALSE
HasSuffix(s, suffix) ==
    /\ Len(s) >= Len(suffix)
    /\ SubSeq(s, Len(s) - Len(suffix) + 1, Len(s)) = suffix

\* strings.TrimSuffix(s, suffix)
TrimSuffix(s, suffix) ==
    IF HasSuffix(s, suffix) THEN SubSeq(s, 1, Len(s) - Len(suffix)) ELSE s

VersionSuffix == <<"/", "v", "1">>

\* NewOllama: the base URL the provider keeps
OllamaBaseURL(baseURL) ==
    IF ~HasSuffix(baseURL, VersionSuffix)
    THEN TrimSuffix(baseURL, <<"/">>) \o VersionSuffix
    ELSE baseURL

\* the endpoints map of OllamaProvider.Endpoint / AzureProvider.Endpoint
\* without the deployment prefix
EndpointPath(p) == IF p = "embeddings" THEN "/embeddings" ELSE "/chat/completions"

\* fmt.Sprintf of the Endpoint methods
EndpointURL(b, p) ==
    IF b.kind = "ollama"
    THEN b.baseURL \o <<EndpointPath(p)>>
    ELSE b.baseURL \o <<"/deployments/", b.deployment, EndpointPath(p),
                        "?api-version=", b.apiVersion>>

\* x, ok := c.Options[key].(string); ok && x != ""
RequiredStringPresent(options, key) == key \in DOMAIN options
RequiredString(options, key) ==
    /\ key \in DOMAIN options
    /\ options[key].t = "string"
    /\ options[key].str # ""

\* the options NewAzure requires, in the order it reads them
AzureKeys == <<"deployment", "auth_type", "token", "api_version">>
AzureKeySet == {AzureKeys[i] : i \in DOMAIN AzureKeys}

\* an option value: the empty string, a string, a value that is not a string
OptionValues == {JStr(""), JStr("x"), JNum(1)}

\* the auth modes SetHeaders knows
AuthTypes == {"api_key", "bearer"}

\* the values an option is given: auth_type also takes the two known modes
OptionValuesOf(k) ==
    IF k = "auth_type" THEN OptionValues \cup {JStr(a) : a \in AuthTypes} ELSE OptionValues

ProviderOptions ==
    UNION {{f \in [D -> OptionValues \cup {JStr(a) : a \in AuthTypes}] :
               \A k \in D : f[k] \in OptionValuesOf(k)} : D \in SUBSET AzureKeySet}

Hosts == {<<"http://localhost:11434">>, <<"https://ollama.example">>}
URLTails == {<<>>, <<"/">>, <<"/", "v", "1">>, <<"/", "v", "1", "/">>, <<"/", "v", "2">>}
ProviderConfigs ==
    [BaseURL : {h \o t : h \in Hosts, t \in URLTails}, Options : ProviderOptions]

\* NewOllama(c)
NewOllama ==
    /\ pcN = "idle"
    /\ provider = "ollama"
    /\ pBuilt' = [NoProvider EXCEPT !.kind = "ollama",
                                    !.baseURL = OllamaBaseURL(pConfig.BaseURL)]
    /\ provErr' = ""
    /\ pcN' = "built"
    /\ UNCHANGED <<pConfig, endpointURL, authHeaders, headerVars, visionVars,
                   chatVars, execVars, healthy, callVars, lockVars, streamVars>>

\* NewAzure(c)
NewAzure ==
    /\ pcN = "idle"
    /\ provider = "azure"
    /\ LET missing == {i \in DOMAIN AzureKeys : ~RequiredString(pConfig.Options, AzureKeys[i])}
       IN IF missing # {}
          THEN /\ pBuilt' = NoProvider
               /\ provErr' = AzureKeys[CHOOSE i \in missing : \A j \in missing : i <= j]
               /\ pcN' = "failed"
          ELSE /\ pBuilt' = [kind |-> "azure", baseURL |-> pConfig.BaseURL,
                             deployment |-> pConfig.Options["deployment"].str,
                             authType |-> pConfig.Options["auth_type"].str,
                             token |-> pConfig.Options["token"].str,
                             apiVersion |-> pConfig.Options["api_version"].str]
               /\ provErr' = ""
               /\ pcN' = "built"
    /\ UNCHANGED <<pConfig, endpointURL, authHeaders, headerVars, visionVars,
                   chatVars, execVars, healthy, callVars, lockVars, streamVars>>

\* p.Endpoint(proto) on the provider that was built
Endpoint ==
    /\ pcN = "built"
    /\ IF EndpointExists(pBuilt.kind, proto)
       THEN /\ endpointURL' = EndpointURL(pBuilt, proto)
            /\ pcN' = "resolved"
       ELSE /\ endpointURL' = <<>>
            /\ pcN' = "unresolved"
    /\ UNCHANGED <<pConfig, pBuilt, provErr, authHeaders, headerVars, visionVars,
                   chatVars, execVars, healthy, callVars, lockVars, streamVars>>

\* (*AzureProvider).SetHeaders: the headers it sets on the request
AzureSetHeaders(b) ==
    CASE b.authType = "api_key" ->
           IF b.token # "" THEN ("api-key" :> <<b.token>>) ELSE EmptyMap
      [] b.authType = "bearer" ->
           IF b.token # "" THEN ("Authorization" :> <<"Bearer ", b.token>>) ELSE EmptyMap
      [] OTHER -> EmptyMap

\* (*OllamaProvider).SetHeaders on the options the provider keeps; the
\* auth_header option is not given, the API key goes to X-API-Key
OllamaSetHeaders(options) ==
    IF "auth_type" \in DOMAIN options /\ options["auth_type"].t = "string"
       /\ RequiredString(options, "token")
    THEN CASE options["auth_type"].str = "bearer" ->
                ("Authorization" :> <<"Bearer ", options["token"].str>>)
           [] options["auth_type"].str = "api_key" ->
                ("X-API-Key" :> <<options["token"].str>>)
           [] OTHER -> EmptyMap
    ELSE EmptyMap

\* provider.SetHeaders(httpReq) on the request built for the resolved URL
SetHeaders ==
    /\ pcN = "resolved"
    /\ authHeaders' = IF pBuilt.kind = "azure" THEN AzureSetHeaders(pBuilt)
                      ELSE OllamaSetHeaders(pConfig.Options)
    /\ pcN' = "headersSet"
    /\ UNCHANGED <<pConfig, pBuilt, provErr, endpointURL, headerVars, visionVars,
                   chatVars, execVars, healthy, callVars, lockVars, streamVars>>

NextProvider ==
    \/ NewOllama
    \/ NewAzure
    \/ Endpoint
    \/ SetHeaders

InitProvider ==
    /\ InitIdle
    /\ InitChatIdle
    /\ InitHeadersIdle
    /\ InitVisionIdle
    /\ pcN = "idle"
    /\ pConfig \in ProviderConfigs
    /\ pBuilt = NoProvider
    /\ provErr = ""
    /\ endpointURL = <<>>
    /\ authHeaders = EmptyMap

SpecProvider == InitProvider /\ [][NextProvider]_vars

\* the base URL is http://host, http://host/ or http://host/v1
ThreeForms(h) == {h, h \o <<"/">>, h \o <<"/", "v", "1">>}

\* C28: the local backend resolves the chat endpoint to the same URL,
\* <host>/v1/chat/completions, whether it was constructed with base URL
\* http://host, http://host/ or http://host/v1.
C28_OllamaChatEndpointNormalized ==
    \A h \in Hosts :
        (pcN = "resolved" /\ pBuilt.kind = "ollama" /\ proto = "chat"
           /\ pConfig.BaseURL \in ThreeForms(h))
        => endpointURL = h \o <<"/", "v", "1", "/chat/completions">>

C28_Witness ==
    /\ pcN = "resolved"
    /\ pBuilt.kind = "ollama"
    /\ proto = "chat"
    /\ pConfig.BaseURL = <<"http://localhost:11434", "/">>
    /\ endpointURL = <<"http://localhost:11434", "/", "v", "1", "/chat/completions">>

\* NewAzure was called and has returned
AzureConstructed ==
    provider = "azure" /\ pcN \in {"built", "failed", "resolved", "unresolved", "headersSet"}

\* C29: constructing the cloud provider fails with an error, returning no
\* provider, if and only if at least one of deployment, auth mode, credential
\* or API version is absent or empty in its options; when all four are present
\* construction succeeds.
C29_AzureRequiresFourOptions ==
    AzureConstructed =>
        ((provErr # "" /\ pBuilt = NoProvider)
            <=> (\E k \in AzureKeySet :
                    k \notin DOMAIN pConfig.Options \/ pConfig.Options[k] = JStr("")))

\* C29 amended: construction fails with an error, returning no provider, if
\* and only if at least one of the four options is absent, is not a string, or
\* is the empty string; otherwise it succeeds and the provider holds the four
\* values.
C29_AzureRequiresFourStrings ==
    AzureConstructed =>
        /\ (provErr # "" /\ pBuilt = NoProvider)
              <=> (\E k \in AzureKeySet :
                      \/ k \notin DOMAIN pConfig.Options
                      \/ pConfig.Options[k].t # "string"
                      \/ pConfig.Options[k].str = "")
        /\ provErr = "" <=> pBuilt # NoProvider
        /\ provErr = "" =>
              /\ pBuilt.kind = "azure"
              /\ pBuilt.deployment = pConfig.Options["deployment"].str
              /\ pBuilt.authType = pConfig.Options["auth_type"].str
              /\ pBuilt.token = pConfig.Options["token"].str
              /\ pBuilt.apiVersion = pConfig.Options["api_version"].str

C29_Witness ==
    /\ provider = "azure"
    /\ pcN = "failed"
    /\ DOMAIN pConfig.Options = AzureKeySet
    /\ pConfig.Options["deployment"] = JStr("x")
    /\ pConfig.Options["auth_type"] = JStr("x")
    /\ pConfig.Options["token"] = JStr("")
    /\ pConfig.Options["api_version"] = JStr("x")
    /\ provErr = "token"
    /\ pBuilt = NoProvider

\* ------------------- a chat request: Marshal, the backend's echo, ParseChat
\* marshalChat(d)
marshalChat(d) ==
    LET combined == MapsCopy(("model" :> JStr(ModelName)) @@ ("messages" :> JMsgs(d.Messages)),
                             d.Options)
    IN JSONMarshal(combined)

\* fmt.Sprintf("%v", v) of a decoded content that is not a string
SprintfV(c) == IF c.t = "array" THEN <<"[", "]">> ELSE <<"1">>

\* (*ChatResponse).Content()
Content(r) ==
    IF Len(r.Choices) > 0
    THEN IF r.Choices[1].Message.Content.t = "string"
         THEN r.Choices[1].Message.Content.s
         ELSE SprintfV(r.Choices[1].Message.Content)
    ELSE <<>>

ChatDatas == [Messages : SeqUpTo(CallerMessages, MaxMessages), Options : OptionMaps]

\* provider.Marshal(protocol.Chat, &ChatData{...})
MarshalChat ==
    /\ pcR = "idle"
    /\ chatBody' = marshalChat(chatData)
    /\ pcR' = "marshaled"
    /\ UNCHANGED <<chatData, echoIdx, chatResp, chatContent, headerVars, visionVars,
                   providerVars, execVars, healthy, callVars, lockVars, streamVars>>

\* the backend answers with one of the marshaled messages as its first choice
BackendEcho ==
    /\ pcR = "marshaled"
    /\ chatBody["messages"].t = "messages"
    /\ \E i \in 1..Len(chatBody["messages"].msgs) : echoIdx' = i
    /\ pcR' = "answered"
    /\ UNCHANGED <<chatData, chatBody, chatResp, chatContent, headerVars, visionVars,
                   providerVars, execVars, healthy, callVars, lockVars, streamVars>>

\* response.ParseChat(body) and Content() on its result
ParseChat ==
    /\ pcR = "answered"
    /\ LET r == [Choices |-> <<[Index |-> 0,
                               Message |-> JSONUnmarshalMessage(
                                               chatBody["messages"].msgs[echoIdx])]>>]
       IN /\ chatResp' = r
          /\ chatContent' = Content(r)
    /\ pcR' = "parsed"
    /\ UNCHANGED <<chatData, chatBody, echoIdx, headerVars, visionVars,
                   providerVars, execVars, healthy, callVars, lockVars, streamVars>>

NextChat ==
    \/ MarshalChat
    \/ BackendEcho
    \/ ParseChat

InitChat ==
    /\ InitIdle
    /\ InitHeadersIdle
    /\ InitVisionIdle
    /\ InitProviderIdle
    /\ provider = "ollama"
    /\ proto = "chat"
    /\ pcR = "idle"
    /\ chatData \in ChatDatas
    /\ chatBody = EmptyMap
    /\ echoIdx = 0
    /\ chatResp = NoChoices
    /\ chatContent = <<>>

SpecChat == InitChat /\ [][NextChat]_vars

\* the echoed message is the marshaled form of a message of the request
\* whose content is text
EchoOfTextMessage ==
    /\ pcR = "parsed"
    /\ echoIdx <= Len(chatData.Messages)
    /\ chatData.Messages[echoIdx].Content.t = "string"

\* C30: round trip: for every chat request, marshaling it and then decoding
\* a backend response that echoes the marshaled message as its first choice
\* yields a response whose content accessor returns the original message's
\* text content.
C30_ChatRoundTrip ==
    EchoOfTextMessage => chatContent = chatData.Messages[echoIdx].Content.s

\* ------------------------------------------- claims on DNS failures
\* the last attempt ended in a DNS failure, flagged temporary / timeout or not,
\* inside a connection-operation error or directly inside the URL error
DNSFlagged == {"dnsTemp", "dnsTempBare"}
DNSUnflagged == {"dnsPerm", "dnsPermBare"}

\* C31: a DNS failure is classified retryable if and only if it is flagged
\* temporary or timeout, also when it is the cause inside a
\* connection-operation error or a URL error; a DNS failure flagged neither
\* way leads to exactly one attempt: the attempt it ended is the call's last,
\* and Execute returns its error.
C31_DNSRetryableIffFlagged ==
    (lastEnv.kind = "transport" /\ lastEnv.cause \in DNSFlagged \cup DNSUnflagged) =>
        /\ isRetryableError(lastErr) <=> lastEnv.cause \in DNSFlagged
        /\ lastEnv.cause \in DNSUnflagged =>
              (pcE = "done" /\ retErr = lastErr /\ events[Len(events)] = "A")

\* ------------------------------------ claims on the decode workers' lines
\* a line the chunk decoder accepts once the data prefix, when present, is
\* stripped
DecodableLine(l) == l.kind = "json"

RECURSIVE DecodableChunks(_)
DecodableChunks(lines) ==
    IF lines = <<>> THEN <<>>
    ELSE (IF DecodableLine(Head(lines)) THEN <<Head(lines).id>> ELSE <<>>)
         \o DecodableChunks(Tail(lines))

\* C32: in both backends a well-formed chunk line is decoded and delivered
\* whether or not it carries the data prefix: a stream that closes without
\* cancellation has delivered the chunk of every decodable line read before
\* the marker, in order, the same sequence for either backend.
C32_UnprefixedLinesDecoded ==
    ClosedUncancelled
    => DataOf(received) = DecodableChunks(BeforeMarker(readLines))

\* ------------------------------ claims on the health write of a stream
\* the adapter goroutine has executed c.setHealthy(true): a started stream
\* writes the flag nowhere else
StreamSetHealthy == pcS = "streaming" /\ healthWrites > 0

\* the worker left its loop at the end of the body or at the marker
WorkerCompleted ==
    \/ tail \in {"eof", "eofPartial"}
    \/ (readLines # <<>> /\ TerminationMarker(Last(readLines)))

\* C33: the adapter sets the flag to healthy only for a stream that ran to
\* normal completion: the worker reached the end of the body or the marker,
\* no error chunk was emitted, the token was not cancelled by then, and every
\* decoded chunk has been handed to the consumer.
C33_HealthyOnlyAfterNormalCompletion ==
    StreamSetHealthy
    => (/\ WorkerCompleted
        /\ tail # "err"
        /\ \A i \in 1..Len(received) : received[i] # ErrChunk
        /\ DataOf(received) = ChunksOf(provider, BeforeMarker(readLines)))

\* ------------------------------------- claims on the end of the body
\* ReadString returned io.EOF together with an unterminated rest; the rest is
\* a well-formed chunk line, the one after the lines read so far
FinalLine == ChunkLine(Len(readLines) + 1)

BodyLines ==
    IF tail = "eofPartial" THEN Append(readLines, FinalLine) ELSE readLines

\* C34: when the body ends without a marker and the stream closes without
\* cancellation, every well-formed chunk line of the body has been delivered,
\* a final line without a newline included.
C34_AllLinesDeliveredAtEOF ==
    (tail \in {"eof", "eofPartial"} /\ ClosedUncancelled)
    => DataOf(received) = ChunksOf(provider, BodyLines)


\* ------------------------------ claims on the totality of the retry loop
\* C35: the backoff computation returns on every retry configuration that
\* reaches it: it never aborts the call, and the delay it returns lies
\* between zero and maxBackoff.
C35_BackoffTotal ==
    /\ pcE # "panic"
    /\ (pcE = "select" => 0 <= delay /\ delay <= cfg.MaxBackoff)

\* C36: for every MaxRetries, zero and negative values included, an Execute
\* call that returns while its token is not cancelled has performed at least
\* one attempt.
C36_AtLeastOneAttempt ==
    (pcE = "done" /\ ~execCtxDone) => Count(events, "A") >= 1


\* ------------------------------- claims on the merging of model options
\* the body marshalChat would produce from the model name and the request's
\* messages alone
ChatPayloadBody ==
    JSONMarshal(("model" :> JStr(ModelName)) @@ ("messages" :> JMsgs(chatData.Messages)))

\* C37: for every option map, one holding the key model or messages included,
\* the marshaled body's model field is the model's name and its messages field
\* is the request's own message list: options are merged in without replacing
\* them.
C37_OptionsKeepModelAndPayload ==
    pcR # "idle" =>
        /\ chatBody["model"] = ChatPayloadBody["model"]
        /\ chatBody["messages"] = ChatPayloadBody["messages"]


\* ------------------------------------ claims on the cloud auth mode
\* the one credential header of an auth mode
CredentialHeader(mode, token) ==
    IF mode = "api_key" THEN ("api-key" :> <<token>>)
    ELSE ("Authorization" :> <<"Bearer ", token>>)

\* C38: a cloud provider is constructed only with the auth mode API-key or
\* bearer, and a constructed cloud provider sets exactly one credential
\* header, the one of its auth mode, on a request it authenticates.
C38_AzureAuthModeValidated ==
    /\ (provider = "azure" /\ pcN \in {"built", "resolved", "unresolved", "headersSet"})
          => pBuilt.authType \in AuthTypes
    /\ (provider = "azure" /\ pcN = "headersSet")
          => authHeaders = CredentialHeader(pBuilt.authType, pBuilt.token)


\* ----------------------------- claims on the local base-URL normalization
\* the base URL is http://host, http://host/, http://host/v1 or http://host/v1/
FourForms(h) == ThreeForms(h) \cup {h \o <<"/", "v", "1", "/">>}

\* NewOllama was called and has returned
OllamaConstructed ==
    pBuilt.kind = "ollama" /\ pcN \in {"built", "resolved", "unresolved", "headersSet"}

\* C39: for every base URL among the four forms the base URL the local
\* provider keeps is http://host/v1, with one version segment, and
\* normalizing the kept URL again leaves it unchanged.
C39_BaseURLNormalized ==
    \A h \in Hosts :
        (OllamaConstructed /\ pConfig.BaseURL \in FourForms(h))
        => /\ pBuilt.baseURL = h \o VersionSuffix
           /\ OllamaBaseURL(pBuilt.baseURL) = pBuilt.baseURL


\* --------------------------------------- claims on the pace of a stream
\* decoded chunks the consumer has not received
Undelivered == Len(ChunksOf(provider, readLines)) - Len(DataOf(received))

\* chunks held by the worker and by the adapter
Held == (IF wChunk > 0 THEN 1 ELSE 0) + (IF aChunk > 0 THEN 1 ELSE 0)

\* C40: at every moment of a stream at most two decoded chunks have not
\* reached the consumer; until the token is cancelled they are exactly the
\* chunk the worker holds awaiting handoff and the chunk the adapter holds;
\* and while the worker holds a chunk it is in its handoff, not reading a
\* further body line.
C40_LockStep ==
    /\ Undelivered <= 2
    /\ (~ctxDone => Undelivered = Held)
    /\ (wChunk # 0 => pcW \in {"sel", "blocked"})

C40_Witness ==
    /\ ~ctxDone
    /\ wChunk = 2
    /\ aChunk = 1
    /\ pcW = "blocked"
    /\ pcA = "blocked"
    /\ received = <<>>
    /\ readLines = <<ChunkLine(1), ChunkLine(2)>>

====
